---- MODULE Spec2Model ----
(***************************************************************************)
(* OpenOwl content extraction: the extractor registry (Dispatcher), the    *)
(* BaseSiteExtractor helpers, the site variants and the generic variant.   *)
(*                                                                         *)
(* Representation of JavaScript strings.                                   *)
(*  - A text (page text, title, content, error message) is a sequence of   *)
(*    runs [c |-> class, n |-> count]: n consecutive characters of class   *)
(*    c.  Classes: "<" and ">" (angle brackets), " ", "\n", "\t"           *)
(*    (whitespace, matched by the regex class \s), and "x" (any other      *)
(*    character).  Texts are kept in normal form: no empty run, no two     *)
(*    adjacent runs of one class.  The length of a text is the sum of its  *)
(*    counts, so texts longer than the 2000-character cap are cheap.       *)
(*  - A URL or host name is a sequence of tokens ("https", "://",          *)
(*    "github", ".", "com", "/", ...); a token stands for the characters   *)
(*    it spells, and prefix/suffix/substring tests work token by token.    *)
(***************************************************************************)
EXTENDS Integers, Sequences, FiniteSets, TLC

(***************************************************************************)
(* Texts                                                                   *)
(***************************************************************************)
Whitespace == {" ", "\n", "\t"}

EmptyText == <<>>

Run(c, n) == IF n > 0 THEN <<[c |-> c, n |-> n]>> ELSE <<>>

\* Two texts in normal form, one after the other.
Glue(a, b) ==
  IF a = <<>> THEN b
  ELSE IF b = <<>> THEN a
  ELSE IF a[Len(a)].c = b[1].c
       THEN SubSeq(a, 1, Len(a) - 1)
            \o <<[c |-> b[1].c, n |-> a[Len(a)].n + b[1].n]>> \o Tail(b)
       ELSE a \o b

RECURSIVE Norm(_)
Norm(s) ==
  IF s = <<>> THEN <<>>
  ELSE IF Len(s) = 1 THEN (IF s[1].n = 0 THEN <<>> ELSE s)
  ELSE LET h == Len(s) \div 2
       IN  Glue(Norm(SubSeq(s, 1, h)), Norm(SubSeq(s, h + 1, Len(s))))

\* The runs of the parts, in order.
RECURSIVE Flat(_)
Flat(parts) ==
  IF parts = <<>> THEN <<>>
  ELSE IF Len(parts) = 1 THEN parts[1]
  ELSE LET h == Len(parts) \div 2
       IN  Flat(SubSeq(parts, 1, h)) \o Flat(SubSeq(parts, h + 1, Len(parts)))

\* String concatenation (the + operator and template literals).
Cat(parts) == Norm(Flat(parts))

\* String.prototype.length
RECURSIVE StrLen(_)
StrLen(s) ==
  IF s = <<>> THEN 0
  ELSE IF Len(s) = 1 THEN s[1].n
  ELSE LET h == Len(s) \div 2
       IN  StrLen(SubSeq(s, 1, h)) + StrLen(SubSeq(s, h + 1, Len(s)))

\* String.prototype.substring(0, k)
substring(s, k) ==
  LET before == [i \in 1..Len(s) |-> StrLen(SubSeq(s, 1, i - 1))]
      kept == SelectSeq([i \in 1..Len(s) |-> [run |-> s[i], before |-> before[i]]],
                        LAMBDA r : r.before < k)
  IN  [i \in 1..Len(kept) |->
         [c |-> kept[i].run.c,
          n |-> IF kept[i].before + kept[i].run.n > k THEN k - kept[i].before
                ELSE kept[i].run.n]]

\* String.prototype.trim(): drop leading and trailing whitespace runs.
RECURSIVE TrimLeft(_)
TrimLeft(s) ==
  IF s # <<>> /\ Head(s).c \in Whitespace THEN TrimLeft(Tail(s)) ELSE s

RECURSIVE TrimRight(_)
TrimRight(s) ==
  IF s # <<>> /\ s[Len(s)].c \in Whitespace
  THEN TrimRight(SubSeq(s, 1, Len(s) - 1)) ELSE s

\* Variant of trim that keeps trailing whitespace.
trimStart(s) == TrimLeft(s)

trim(s) == TrimRight(TrimLeft(s))

\* text.replace(/<[^>]*>/g, ''): every match starts at a '<' that has a '>'
\* somewhere after it and ends at the first such '>'.  After any '>' the scan
\* is outside a tag again.  Run i is inside a match when a '>' occurs at or
\* after it and a '<' occurs at or before it with no '>' in between.
OpenBefore(s, i) ==
  \E p \in 1..i : /\ s[p].c = "<"
                  /\ \A q \in (p+1)..(i-1) : s[q].c # ">"

GtAfter(s, i) == \E g \in (i+1)..Len(s) : s[g].c = ">"

StripRun(s, i) ==
  CASE s[i].c = ">" ->
         \* the first '>' of the run closes an open tag, the rest are literal
         IF i > 1 /\ OpenBefore(s, i - 1) THEN Run(">", s[i].n - 1) ELSE <<s[i]>>
    [] s[i].c = "<" -> IF GtAfter(s, i) THEN <<>> ELSE <<s[i]>>
    [] OTHER -> IF OpenBefore(s, i) /\ GtAfter(s, i) THEN <<>> ELSE <<s[i]>>

StripFrom(s, i) == Flat([j \in 1..(Len(s) - i + 1) |-> StripRun(s, i + j - 1)])

StripTags(s) == Norm(StripFrom(s, 1))

\* text.replace(/\s+/g, ' '): every maximal run of whitespace becomes one space.
CollapseFrom(s, i) ==
  Flat([j \in 1..(Len(s) - i + 1) |->
          LET r == i + j - 1
          IN  IF s[r].c \in Whitespace
              THEN IF r > 1 /\ s[r-1].c \in Whitespace THEN <<>>
                   ELSE <<[c |-> " ", n |-> 1]>>
              ELSE <<s[r]>>])

CollapseWhitespace(s) == CollapseFrom(s, 1)

\* Variant of cleanText that collapses whitespace before it strips tags.
cleanTextCollapseFirst(text) ==
  IF text = <<>> THEN <<>>
  ELSE trim(StripTags(CollapseWhitespace(text)))

\* BaseSiteExtractor.cleanText
cleanText(text) ==
  IF text = <<>> THEN <<>>
  ELSE trim(CollapseWhitespace(StripTags(text)))

\* A literal markup tag: a '<' with a '>' somewhere after it.
HasTag(s) ==
  \E i \in 1..Len(s) : s[i].c = "<" /\ \E j \in (i+1)..Len(s) : s[j].c = ">"

(***************************************************************************)
(* URLs and host names (token sequences)                                   *)
(***************************************************************************)
\* String.prototype.startsWith / endsWith / includes, token by token.
startsWith(s, pre) == Len(s) >= Len(pre) /\ SubSeq(s, 1, Len(pre)) = pre

endsWith(s, suf) ==
  Len(s) >= Len(suf) /\ SubSeq(s, Len(s) - Len(suf) + 1, Len(s)) = suf

includes(s, sub) ==
  \E i \in 1..(Len(s) - Len(sub) + 1) : SubSeq(s, i, i + Len(sub) - 1) = sub

\* Schemes the URL parser accepts in the pages and strings considered.
Schemes == {"https", "http", "chrome", "chrome-extension", "about"}

\* new URL(url) throws a TypeError unless the string is an absolute URL:
\* a scheme followed by ':' (here the token "://" or ":").
URLParses(url) ==
  /\ Len(url) >= 2
  /\ url[1] \in Schemes
  /\ url[2] \in {"://", ":"}

\* The URL parser lower-cases the host of a URL.
ToLower(tok) ==
  CASE tok = "GitHub" -> "github"
    [] tok = "COM" -> "com"
    [] tok = "This" -> "this"
    [] tok = "ALL" -> "all"
    [] tok = "Standup" -> "standup"
    [] tok = "Write" -> "write"
    [] tok = "I" -> "i"
    [] OTHER -> tok

\* Index of the first token of the path ("/" or "?"), or Len(url) + 1.
PathStart(url) ==
  LET cand == {i \in 3..Len(url) : url[i] \in {"/", "?"}}
  IN  IF cand = {} THEN Len(url) + 1
      ELSE CHOOSE i \in cand : \A j \in cand : i <= j

\* URL.hostname (window.location.hostname): the authority of "scheme://host/..",
\* lower-cased; empty for URLs without an authority (about:blank).
hostname(url) ==
  IF url[2] = "://"
  THEN [i \in 1..(PathStart(url) - 3) |-> ToLower(url[i + 2])]
  ELSE <<>>

\* URL.pathname (window.location.pathname): from the first "/" after the host
\* up to the query; "/" when the URL has no path.
pathname(url) ==
  LET ps == PathStart(url)
      qs == {i \in ps..Len(url) : url[i] = "?"}
      pe == IF qs = {} THEN Len(url) ELSE (CHOOSE i \in qs : \A j \in qs : i <= j) - 1
  IN  IF url[2] # "://" THEN SubSeq(url, 3, pe)
      ELSE IF ps > pe THEN <<"/">> ELSE SubSeq(url, ps, pe)

(***************************************************************************)
(* Capability contract: domains, canHandle                                 *)
(***************************************************************************)
\* The registered variants, by name (the name getters).
SiteNames == {"GitHub", "Atlassian", "Gmail", "Google Calendar", "Notion", "Linear"}

\* The extractor template of the contributing guide ("return ['yoursite.com']"),
\* instantiated for two sites with an overlap: the host sub.example.com is a
\* subdomain of the first and the exact domain of the second.
TemplateNames == {"Example", "ExampleSub"}

TemplateDomains(name) ==
  CASE name = "Example" -> {<<"example", ".", "com">>}
    [] name = "ExampleSub" -> {<<"sub", ".", "example", ".", "com">>}
    [] OTHER -> {}

\* The domains getters of the variants.
domains(name) ==
  CASE name = "GitHub" -> {<<"github", ".", "com">>}
    [] name = "Atlassian" -> {<<"atlassian", ".", "net">>, <<"jira", ".", "com">>}
    [] name = "Gmail" -> {<<"mail", ".", "google", ".", "com">>}
    [] name = "Google Calendar" -> {<<"calendar", ".", "google", ".", "com">>}
    [] name = "Notion" -> {<<"notion", ".", "so">>, <<"notion", ".", "com">>}
    [] name = "Linear" -> {<<"linear", ".", "app">>}
    [] name = "Generic" -> {}
    [] OTHER -> TemplateDomains(name)

\* Variant of canHandle that tests the suffix without the separating dot.
BaseCanHandleNoDot(doms, url) ==
  IF ~URLParses(url) THEN FALSE
  ELSE \E domain \in doms :
         \/ hostname(url) = domain
         \/ endsWith(hostname(url), domain)

\* BaseSiteExtractor.canHandle, for a variant with the given domain set.
\* A URL that fails to parse throws inside the try block: the catch returns false.
BaseCanHandle(doms, url) ==
  IF ~URLParses(url) THEN FALSE
  ELSE \E domain \in doms :
         \/ hostname(url) = domain
         \/ endsWith(hostname(url), <<".">> \o domain)

\* GenericExtractor.canHandle: overridden, always false.
GenericCanHandle(url) == FALSE

\* canHandle of the named variant (dynamic dispatch on the extractor object).
canHandle(name, url) ==
  IF name = "Generic" THEN GenericCanHandle(url)
  ELSE BaseCanHandle(domains(name), url)

(***************************************************************************)
(* Registry: EXTRACTORS, FALLBACK_EXTRACTOR, getExtractor                  *)
(***************************************************************************)
EXTRACTORS ==
  <<"GitHub", "Atlassian", "Gmail", "Google Calendar", "Notion", "Linear">>

FALLBACK_EXTRACTOR == "Generic"

\* Variant of the loop that keeps searching after a match: the last match wins.
RECURSIVE LastMatch(_, _)
LastMatch(list, url) ==
  IF list = <<>> THEN FALLBACK_EXTRACTOR
  ELSE IF canHandle(list[Len(list)], url) THEN list[Len(list)]
       ELSE LastMatch(SubSeq(list, 1, Len(list) - 1), url)

\* Variant of the loop without the fallback: undefined when nothing matches.
RECURSIVE FirstMatchNoFallback(_, _)
FirstMatchNoFallback(list, url) ==
  IF list = <<>> THEN "undefined"
  ELSE IF canHandle(Head(list), url) THEN Head(list)
       ELSE FirstMatchNoFallback(Tail(list), url)

\* The for-loop of getExtractor over a list of variants: the first variant
\* whose canHandle succeeds, the fallback when there is none.
RECURSIVE FirstMatch(_, _)
FirstMatch(list, url) ==
  IF list = <<>> THEN FALLBACK_EXTRACTOR
  ELSE IF canHandle(Head(list), url) THEN Head(list)
       ELSE FirstMatch(Tail(list), url)

getExtractor(url) == FirstMatch(EXTRACTORS, url)

\* testUrl(url): the name of the extractor that would handle the URL.
testUrl(url) == getExtractor(url)

(***************************************************************************)
(* The page: window.location, document.title, and a flat document          *)
(***************************************************************************)
\* A page is [href, title, hasBody, dom]; dom is the sequence of elements in
\* document order, each [m |-> the selectors it matches, text |-> its
\* innerText, parts |-> texts of named descendants].  hasBody is FALSE while
\* document.body is still null.
NoParts == [k \in {} |-> <<>>]

Elem(m, text) == [m |-> m, text |-> text, parts |-> NoParts]

\* document.querySelectorAll(selector), in document order.
querySelectorAll(pg, selector) ==
  SelectSeq(pg.dom, LAMBDA el : selector \in el.m)

\* !!document.querySelector(selector)
Present(pg, selector) == querySelectorAll(pg, selector) # <<>>

\* a || b || ... on strings: the first non-empty one, else the last.
RECURSIVE FirstNonEmpty(_)
FirstNonEmpty(ts) ==
  IF Len(ts) = 1 THEN ts[1]
  ELSE IF Head(ts) # <<>> THEN Head(ts) ELSE FirstNonEmpty(Tail(ts))

\* Array.prototype.join(sep)
join(ts, sep) ==
  Cat([i \in 1..(2 * Len(ts) - 1) |-> IF i % 2 = 1 THEN ts[(i + 1) \div 2] ELSE sep])

\* Array.prototype.slice(0, k)
slice(ts, k) == SubSeq(ts, 1, IF Len(ts) < k THEN Len(ts) ELSE k)

\* Literal text: words of the given lengths, in character class cls,
\* separated by single spaces.
RECURSIVE Words(_, _)
Words(cls, lens) ==
  IF lens = <<>> THEN <<>>
  ELSE IF Len(lens) = 1 THEN Run(cls, lens[1])
       ELSE Run(cls, lens[1]) \o Run(" ", 1) \o Words(cls, Tail(lens))

SP == Run(" ", 1)
NL == Run("\n", 1)
NL2 == Run("\n", 2)

(***************************************************************************)
(* BaseSiteExtractor helpers                                               *)
(***************************************************************************)
\* Strings that are not selectors: document.querySelector throws a
\* SyntaxError for them.
InvalidSelectors == {"a["}

\* getText(selector) with maxLength omitted (Infinity).  An exception of the
\* DOM call is caught and yields ''.
getTextAll(pg, selector) ==
  IF selector \in InvalidSelectors THEN <<>>
  ELSE LET els == querySelectorAll(pg, selector)
       IN  IF els = <<>> THEN <<>> ELSE cleanText(els[1].text)

\* Variant of getText that ignores maxLength.
getTextUntruncated(pg, selector, maxLength) == getTextAll(pg, selector)

\* getText(selector, maxLength)
getText(pg, selector, maxLength) ==
  substring(getTextAll(pg, selector), maxLength)

\* getMultiple(selector, maxLength)
getMultiple(pg, selector, maxLength) ==
  IF selector \in InvalidSelectors THEN <<>>
  ELSE LET els == querySelectorAll(pg, selector)
           texts == [i \in 1..Len(els) |->
                       substring(cleanText(els[i].text), maxLength)]
       IN  SelectSeq(texts, LAMBDA t : StrLen(t) > 0)

\* The hard cap of buildResult on content.
MaxContent == 2000

\* document.title || 'Untitled'
Untitled == Run("U", 8)

\* Variant without the placeholder.
TitleRaw(pg) == pg.title

TitleOrUntitled(pg) == IF pg.title # <<>> THEN pg.title ELSE Untitled

\* Variant of buildResult without the cap.
buildResultUncapped(pg, type, content, metadata, ts) ==
  [ url |-> pg.href,
    title |-> TitleOrUntitled(pg),
    domain |-> hostname(pg.href),
    content |-> cleanText(content),
    type |-> type,
    extractionMethod |-> "site_specific",
    metadata |-> metadata,
    timestamp |-> ts ]

\* buildResult(type, content, metadata)
buildResult(pg, type, content, metadata, ts) ==
  [ url |-> pg.href,
    title |-> TitleOrUntitled(pg),
    domain |-> hostname(pg.href),
    content |-> substring(cleanText(content), MaxContent),
    type |-> type,
    extractionMethod |-> "site_specific",
    metadata |-> metadata,
    timestamp |-> ts ]

\* "Could not extract content: "
CouldNotExtract == Words("e", <<5, 3, 7, 8>>) \o SP

\* buildFallbackResult(reason)
buildFallbackResult(pg, reason, ts) ==
  [ url |-> pg.href,
    title |-> TitleOrUntitled(pg),
    domain |-> hostname(pg.href),
    content |-> Cat(<<CouldNotExtract, reason>>),
    type |-> "fallback",
    extractionMethod |-> "fallback",
    metadata |-> [reason |-> reason],
    timestamp |-> ts ]

(***************************************************************************)
(* GenericExtractor                                                        *)
(***************************************************************************)
SemanticSelectors ==
  << "article", "main", "[role=\"main\"]", ".post-content", ".article-content",
     ".markdown-body", ".content", "#content", ".post", ".entry-content",
     "section" >>

MinSemantic == 100
MinBody == 50

\* Variant of the loop that walks the selectors from the end of the list.
RECURSIVE SemanticFromLast(_, _)
SemanticFromLast(pg, i) ==
  IF i > Len(SemanticSelectors) THEN <<>>
  ELSE LET text == getTextAll(pg, SemanticSelectors[Len(SemanticSelectors) + 1 - i])
       IN  IF StrLen(text) >= MinSemantic THEN text ELSE SemanticFromLast(pg, i + 1)

\* trySemanticSelectors: text of the first selector with 100+ characters.
RECURSIVE SemanticFrom(_, _)
SemanticFrom(pg, i) ==
  IF i > Len(SemanticSelectors) THEN <<>>
  ELSE LET text == getTextAll(pg, SemanticSelectors[i])
       IN  IF StrLen(text) >= MinSemantic THEN text ELSE SemanticFrom(pg, i + 1)

trySemanticSelectors(pg) == SemanticFrom(pg, 1)

NoiseSelectors ==
  { "nav", "header", "footer", "aside", ".sidebar", ".menu", ".navigation",
    "script", "style", "noscript", "iframe", "svg", ".ad", ".advertisement",
    ".cookie", ".cookie-banner", ".modal", ".popup", "[class*=\"cookie\"]",
    "[class*=\"banner\"]", "[id*=\"cookie\"]" }

\* tryBodyMinusNoise: the text of a clone of the body with the noise elements
\* removed; document.body being null throws inside the try and yields ''.
tryBodyMinusNoise(pg) ==
  IF ~pg.hasBody THEN <<>>
  ELSE LET kept == SelectSeq(pg.dom, LAMBDA el : el.m \cap NoiseSelectors = {})
           texts == [i \in 1..Len(kept) |-> kept[i].text]
       IN  cleanText(join(texts, NL))

\* 'Untitled page'
UntitledPage == Words("U", <<8, 4>>)

\* GenericExtractor.extract, the body of the try block.
GenericExtract(pg, ts) ==
  LET layer1 == trySemanticSelectors(pg)
      layer2 == tryBodyMinusNoise(pg)
      layer3 == IF pg.title # <<>> THEN pg.title ELSE UntitledPage
  IN  IF StrLen(layer1) >= MinSemantic
      THEN buildResult(pg, "generic_semantic", layer1, [layer |-> 1], ts)
      ELSE IF StrLen(layer2) >= MinBody
           THEN buildResult(pg, "generic_body", layer2, [layer |-> 2], ts)
           ELSE buildResult(pg, "generic_fallback", layer3, [layer |-> 3], ts)

(***************************************************************************)
(* Site variants.  Template literals are written after their .trim();      *)
(* K(lens) is literal text, words of the given lengths.                    *)
(***************************************************************************)
K(lens) == Words("k", lens)

Comma == Run("k", 1) \o SP

EmptyMeta == [k \in {} |-> <<>>]

\* Number-to-string conversion inside a template literal.
NumText(n) == Run("d", IF n < 10 THEN 1 ELSE IF n < 100 THEN 2 ELSE 3)

\* ---- GitHubExtractor ----
GitHubExtractPR(pg, ts) ==
  LET title == FirstNonEmpty(<<getText(pg, ".gh-header-title", 500),
                               getText(pg, "bdi.js-issue-title", 500)>>)
      description == getText(pg, ".comment-body", 300)
      status == FirstNonEmpty(<<getText(pg, ".State", 50),
          getText(pg, "[data-hovercard-type=\"pull_request\"] .State", 50)>>)
      filesChanged == join(getMultiple(pg, ".file-info", 50), Comma)
      reviewers == join(slice(getMultiple(pg, "[data-hovercard-type=\"user\"]", 50), 5), Comma)
      content == trim(Cat(<<K(<<3>>), SP, title, NL2, K(<<7>>), SP, status, NL2,
                            K(<<12>>), NL, description, NL2,
                            K(<<5, 8>>), SP, FirstNonEmpty(<<filesChanged, K(<<10>>)>>), NL2,
                            K(<<10>>), SP, FirstNonEmpty(<<reviewers, K(<<4, 3>>)>>)>>))
  IN  buildResult(pg, "github_pr", content,
                  [title |-> title, status |-> status,
                   filesChanged |-> FirstNonEmpty(<<filesChanged, K(<<7>>)>>),
                   reviewers |-> FirstNonEmpty(<<reviewers, K(<<4>>)>>)], ts)

GitHubExtractIssue(pg, ts) ==
  LET title == FirstNonEmpty(<<getText(pg, ".gh-header-title", 500),
                               getText(pg, "bdi.js-issue-title", 500)>>)
      body == getText(pg, ".comment-body", 400)
      status == getText(pg, ".State", 50)
      labels == join(getMultiple(pg, ".IssueLabel", 30), Comma)
      content == trim(Cat(<<K(<<6>>), SP, title, NL2, K(<<7>>), SP, status, NL2,
                            K(<<7>>), SP, FirstNonEmpty(<<labels, K(<<4>>)>>), NL2,
                            K(<<12>>), NL, body>>))
  IN  buildResult(pg, "github_issue", content,
                  [title |-> title, status |-> status,
                   labels |-> FirstNonEmpty(<<labels, K(<<4>>)>>)], ts)

GitHubExtractCodeFile(pg, ts) ==
  LET filename == FirstNonEmpty(<<getText(pg, ".final-path", 200),
                                  getText(pg, "[data-path]", 200)>>)
      codeLines == slice(getMultiple(pg, ".blob-code-inner", 200), 50)
      content == trim(Cat(<<K(<<5>>), SP, filename, NL2,
                            K(<<4, 6, 2, 7>>), NL, join(codeLines, NL)>>))
  IN  buildResult(pg, "github_code", content,
                  [filename |-> filename, lines |-> Len(codeLines)], ts)

GitHubExtractRepo(pg, ts) ==
  LET repoName == FirstNonEmpty(<<getText(pg, "[itemprop=\"name\"]", 200),
                                  getText(pg, ".repo-title", 200)>>)
      description == FirstNonEmpty(<<getText(pg, "[itemprop=\"about\"]", 300),
                                     getText(pg, ".repository-description", 300)>>)
      readme == FirstNonEmpty(<<getText(pg, "#readme article", 500),
                                getText(pg, ".markdown-body", 500)>>)
      topics == join(getMultiple(pg, "[data-octo-click=\"topic\"]", 30), Comma)
      content == trim(Cat(<<K(<<11>>), SP, repoName, NL2, K(<<12>>), SP, description, NL2,
                            K(<<7>>), SP, FirstNonEmpty(<<topics, K(<<4>>)>>), NL2,
                            K(<<6, 6, 3, 7>>), NL, readme>>))
  IN  buildResult(pg, "github_repo", content,
                  [repoName |-> repoName, description |-> description,
                   topics |-> FirstNonEmpty(<<topics, K(<<4>>)>>)], ts)

\* Variant of the routing that tests '/issues/' before '/pull/'.
GitHubExtractIssuesFirst(pg, ts) ==
  LET path == pathname(pg.href)
  IN  IF includes(path, <<"/", "issues", "/">>) THEN GitHubExtractIssue(pg, ts)
      ELSE IF includes(path, <<"/", "pull", "/">>) THEN GitHubExtractPR(pg, ts)
      ELSE IF includes(path, <<"/", "blob", "/">>) THEN GitHubExtractCodeFile(pg, ts)
      ELSE GitHubExtractRepo(pg, ts)

GitHubExtract(pg, ts) ==
  LET path == pathname(pg.href)
  IN  IF includes(path, <<"/", "pull", "/">>) THEN GitHubExtractPR(pg, ts)
      ELSE IF includes(path, <<"/", "issues", "/">>) THEN GitHubExtractIssue(pg, ts)
      ELSE IF includes(path, <<"/", "blob", "/">>) THEN GitHubExtractCodeFile(pg, ts)
      ELSE GitHubExtractRepo(pg, ts)

\* ---- AtlassianExtractor ----
AtlassianExtractJiraIssue(pg, ts) ==
  LET issueKey == FirstNonEmpty(<<
          getText(pg, "[data-testid=\"issue.views.issue-base.foundation.breadcrumbs.current-issue.item\"]", 50),
          getText(pg, "[data-test-id=\"issue.views.issue-base.foundation.breadcrumbs.current-issue.item\"]", 50),
          getText(pg, "#key-val", 50),
          getText(pg, "[data-testid=\"issue.views.field.rich-text.summary\"]", 50)>>)
      title == FirstNonEmpty(<<
          getText(pg, "[data-testid=\"issue.views.issue-base.foundation.summary.heading\"]", 300),
          getText(pg, "#summary-val", 300),
          getText(pg, "h1", 300)>>)
      status == FirstNonEmpty(<<
          getText(pg, "[data-testid=\"issue.views.field.status.common.ui.status-lozenge\"]", 50),
          getText(pg, "#status-val", 50),
          getText(pg, "[data-test-id=\"issue-field-status\"]", 50)>>)
      description == FirstNonEmpty(<<
          getText(pg, "[data-testid=\"issue.views.field.rich-text.description\"]", 400),
          getText(pg, "#description-val", 400),
          getText(pg, ".user-content-block", 400)>>)
      assignee == FirstNonEmpty(<<
          getText(pg, "[data-testid=\"issue.views.field.user.assignee\"]", 100),
          getText(pg, "#assignee-val", 100)>>)
      content == trim(Cat(<<K(<<4, 6>>), SP, issueKey, NL2, K(<<6>>), SP, title, NL2,
                            K(<<7>>), SP, status, NL2,
                            K(<<9>>), SP, FirstNonEmpty(<<assignee, K(<<10>>)>>), NL2,
                            K(<<12>>), NL, description>>))
  IN  buildResult(pg, "jira_issue", content,
                  [issueKey |-> issueKey, title |-> title, status |-> status,
                   assignee |-> FirstNonEmpty(<<assignee, K(<<10>>)>>)], ts)

AtlassianExtractConfluence(pg, ts) ==
  LET pageTitle == FirstNonEmpty(<<getText(pg, "#title-text", 300),
                                   getText(pg, "[data-testid=\"content-title\"]", 300),
                                   getText(pg, "h1", 300)>>)
      pageContent == FirstNonEmpty(<<getText(pg, "#main-content", 600),
                                     getText(pg, ".wiki-content", 600),
                                     getText(pg, "[data-testid=\"content-body\"]", 600)>>)
      breadcrumbs == join(getMultiple(pg, "#breadcrumb-section a", 50),
                          SP \o Run(">", 1) \o SP)
      content == trim(Cat(<<K(<<10, 5>>), SP, pageTitle, NL2,
                            K(<<5>>), SP, FirstNonEmpty(<<breadcrumbs, K(<<3>>)>>), NL2,
                            K(<<8>>), NL, pageContent>>))
  IN  buildResult(pg, "confluence_page", content,
                  [pageTitle |-> pageTitle,
                   breadcrumbs |-> FirstNonEmpty(<<breadcrumbs, K(<<3>>)>>)], ts)

AtlassianExtract(pg, ts) ==
  LET path == pathname(pg.href)
      url == pg.href
  IN  IF \/ includes(path, <<"/", "browse", "/">>)
         \/ includes(path, <<"/", "jira", "/">>)
         \/ includes(url, <<"selectedIssue=">>)
      THEN AtlassianExtractJiraIssue(pg, ts)
      ELSE IF \/ includes(path, <<"/", "wiki", "/">>)
              \/ includes(path, <<"/", "confluence", "/">>)
           THEN AtlassianExtractConfluence(pg, ts)
           ELSE buildResult(pg, "atlassian_unknown", pg.title, EmptyMeta, ts)

\* ---- GmailExtractor ----
\* Variant that looks for the first marker only.
isEmailOpenFirstMarker(pg) == Present(pg, "[data-message-id]")

isEmailOpen(pg) ==
  \/ Present(pg, "[data-message-id]")
  \/ Present(pg, ".a3s")
  \/ Present(pg, "[role=\"main\"] [role=\"article\"]")

GmailExtractOpenEmail(pg, ts) ==
  LET subject == FirstNonEmpty(<<getText(pg, "h2[data-legacy-thread-id]", 300),
                                 getText(pg, ".hP", 300),
                                 getText(pg, "[role=\"heading\"]", 300)>>)
      sender == FirstNonEmpty(<<getText(pg, ".gD", 100), getText(pg, ".go", 100),
                                getText(pg, "[email]", 100)>>)
      senderEmail == FirstNonEmpty(<<getText(pg, ".gD[email]", 100),
                                     getText(pg, ".go[email]", 100)>>)
      body == FirstNonEmpty(<<getText(pg, ".a3s", 500),
                              getText(pg, "[data-message-id] .a3s", 500),
                              getText(pg, ".ii", 500)>>)
      date == FirstNonEmpty(<<getText(pg, ".g3", 100),
                              getText(pg, "[data-tooltip*=\"GMT\"]", 100)>>)
      address == IF senderEmail # <<>>
                 THEN Cat(<<SP, Run("<", 1), senderEmail, Run(">", 1)>>) ELSE <<>>
      content == trim(Cat(<<K(<<8>>), SP, subject, NL2, K(<<5>>), SP, sender, address, NL2,
                            K(<<5>>), SP, FirstNonEmpty(<<date, K(<<7>>)>>), NL2,
                            K(<<8>>), NL, body>>))
  IN  buildResult(pg, "gmail_email", content,
                  [subject |-> subject, sender |-> sender,
                   senderEmail |-> FirstNonEmpty(<<senderEmail, K(<<7>>)>>),
                   date |-> FirstNonEmpty(<<date, K(<<7>>)>>)], ts)

\* `${i + 1}. ${line}` for every line, joined by '\n'.
RECURSIVE Numbered(_, _)
Numbered(ts, i) ==
  IF i > Len(ts) THEN <<>>
  ELSE <<Cat(<<NumText(i), Run("k", 1), SP, ts[i]>>)>> \o Numbered(ts, i + 1)

GmailExtractInboxView(pg, ts) ==
  LET emailSubjects == slice(getMultiple(pg, "[role=\"main\"] .zA", 100), 10)
      content == IF Len(emailSubjects) > 0
                 THEN Cat(<<K(<<5, 5, 1>>), SP, NumText(Len(emailSubjects)), SP,
                            K(<<7, 7>>), NL2, join(Numbered(emailSubjects, 1), NL)>>)
                 ELSE K(<<5, 5, 1, 2, 5, 9, 4>>)
  IN  buildResult(pg, "gmail_inbox", content,
                  [emailCount |-> Len(emailSubjects)], ts)

GmailExtract(pg, ts) ==
  IF isEmailOpen(pg) THEN GmailExtractOpenEmail(pg, ts)
  ELSE GmailExtractInboxView(pg, ts)

\* ---- CalendarExtractor ----
\* extractOpenEvent returns null when no event title is found.
CalendarEventTitle(pg) ==
  FirstNonEmpty(<<getText(pg, "[data-event-title]", 300),
                  getText(pg, "[role=\"dialog\"] [data-is-event-title=\"true\"]", 300)>>)

CalendarExtractOpenEvent(pg, ts) ==
  LET eventTitle == CalendarEventTitle(pg)
      eventTime == FirstNonEmpty(<<getText(pg, "[data-is-time=\"true\"]", 100),
                                   getText(pg, "[role=\"dialog\"] [data-start-time]", 100)>>)
      eventLocation == FirstNonEmpty(<<getText(pg, "[data-is-location=\"true\"]", 200),
                                       getText(pg, "[role=\"dialog\"] [data-location]", 200)>>)
      eventDescription == FirstNonEmpty(<<getText(pg, "[data-is-description=\"true\"]", 400),
                                          getText(pg, "[role=\"dialog\"] [aria-label*=\"description\"]", 400)>>)
      content == trim(Cat(<<K(<<6>>), SP, eventTitle, NL2,
                            K(<<5>>), SP, FirstNonEmpty(<<eventTime, K(<<3>>)>>), NL2,
                            K(<<9>>), SP, FirstNonEmpty(<<eventLocation, K(<<3>>)>>), NL2,
                            K(<<12>>), NL, FirstNonEmpty(<<eventDescription, K(<<2, 11>>)>>)>>))
  IN  buildResult(pg, "calendar_event", content,
                  [eventTitle |-> eventTitle,
                   eventTime |-> FirstNonEmpty(<<eventTime, K(<<3>>)>>),
                   eventLocation |-> FirstNonEmpty(<<eventLocation, K(<<3>>)>>)], ts)

EventSelectors ==
  <<"[data-eventchip]", "[data-draggable-id]", "[role=\"button\"][data-eventid]",
    "[data-event-id]">>

MaxEvents == 20

\* event.match(/^\d+:/), event.match(/^•/) and event.match(/\d+:\d+/)
StartsWithTime(t) == Len(t) >= 2 /\ t[1].c = "d" /\ t[2].c = ":"

StartsWithBullet(t) == Len(t) >= 1 /\ t[1].c = "bullet"

HasTime(t) ==
  \E i \in 1..(Len(t) - 2) :
     t[i].c = "d" /\ t[i+1].c = ":" /\ t[i+1].n = 1 /\ t[i+2].c = "d"

\* The elements of the first selector that matches anything.
RECURSIVE EventElements(_, _)
EventElements(pg, i) ==
  IF i > Len(EventSelectors) THEN <<>>
  ELSE LET els == querySelectorAll(pg, EventSelectors[i])
       IN  IF Len(els) > 0 THEN els ELSE EventElements(pg, i + 1)

extractVisibleEvents(pg) ==
  LET els == slice(EventElements(pg, 1), MaxEvents)
      texts == [i \in 1..Len(els) |-> cleanText(els[i].text)]
      events == SelectSeq(texts, LAMBDA t : StrLen(t) > 0)
  IN  [i \in 1..Len(events) |->
         IF ~StartsWithTime(events[i]) /\ ~StartsWithBullet(events[i])
         THEN Cat(<<Run("bullet", 1), SP, events[i]>>)
         ELSE events[i]]

\* findNextEvent: the first event holding a time pattern, else null (here <<>>).
RECURSIVE findNextEvent(_)
findNextEvent(events) ==
  IF events = <<>> THEN <<>>
  ELSE IF HasTime(Head(events)) THEN Head(events) ELSE findNextEvent(Tail(events))

CalendarExtractTodaySchedule(pg, ts) ==
  LET events == extractVisibleEvents(pg)
  IN  IF Len(events) = 0
      THEN buildResult(pg, "calendar_schedule", K(<<2, 6, 9, 3, 5>>),
                       [eventCount |-> 0], ts)
      ELSE buildResult(pg, "calendar_schedule",
                       Cat(<<K(<<7, 9>>), NL2, join(events, NL)>>),
                       [eventCount |-> Len(events),
                        nextEvent |-> FirstNonEmpty(<<findNextEvent(events), K(<<2, 8, 6>>)>>)],
                       ts)

CalendarExtract(pg, ts) ==
  IF CalendarEventTitle(pg) # <<>> THEN CalendarExtractOpenEvent(pg, ts)
  ELSE CalendarExtractTodaySchedule(pg, ts)

\* ---- NotionExtractor ----
isDatabaseView(pg) ==
  \/ Present(pg, "[data-block-id*=\"collection\"]")
  \/ Present(pg, ".notion-table-view")
  \/ Present(pg, ".notion-board-view")
  \/ Present(pg, ".notion-list-view")

NotionExtractPage(pg, ts) ==
  LET title == FirstNonEmpty(<<getText(pg, "[placeholder=\"Untitled\"]", 300),
                               getText(pg, "[data-content-editable-leaf=\"true\"]", 300),
                               getText(pg, "h1", 300),
                               pg.title>>)
      content == FirstNonEmpty(<<
          getText(pg, "[data-block-id] [data-content-editable-root=\"true\"]", 800),
          getText(pg, ".notion-page-content", 800),
          getText(pg, "[role=\"textbox\"]", 800)>>)
      blocks == slice(getMultiple(pg, "[data-block-id]", 200), 10)
  IN  IF StrLen(content) < 50
      THEN buildResult(pg, "notion_page", Cat(<<title, NL2, join(blocks, NL2)>>),
                       [title |-> title, blockCount |-> Len(blocks)], ts)
      ELSE buildResult(pg, "notion_page", Cat(<<title, NL2, content>>),
                       [title |-> title], ts)

MaxRows == 15

NotionExtractDatabase(pg, ts) ==
  LET title == FirstNonEmpty(<<getText(pg, "[placeholder=\"Untitled\"]", 300),
                               getText(pg, "h1", 300),
                               pg.title>>)
      rowTitles == slice(getMultiple(pg, "[data-block-id] a", 100), MaxRows)
      cells == slice(getMultiple(pg, ".notion-table-view-cell", 100), MaxRows)
      items == IF Len(rowTitles) = 0 /\ Len(cells) > 0 THEN cells ELSE rowTitles
      content == Cat(<<title, NL2, K(<<8, 4, 4>>), SP, NumText(Len(items)), SP,
                       K(<<7, 6>>), NL2, join(items, NL)>>)
  IN  buildResult(pg, "notion_database", content,
                  [title |-> title, itemCount |-> Len(items)], ts)

NotionExtract(pg, ts) ==
  IF isDatabaseView(pg) THEN NotionExtractDatabase(pg, ts)
  ELSE NotionExtractPage(pg, ts)

\* ---- LinearExtractor ----
\* The characters a URL token spells, as page text.
TokenText(tok) == Run("u", 5)

\* window.location.pathname.split('/').pop()
LastSegment(path) ==
  IF path[Len(path)] = "/" THEN <<>> ELSE TokenText(path[Len(path)])

LinearExtractIssue(pg, ts) ==
  LET issueId == FirstNonEmpty(<<getText(pg, "[data-entity-id]", 50),
                                 getText(pg, ".issue-identifier", 50),
                                 LastSegment(pathname(pg.href))>>)
      title == FirstNonEmpty(<<getText(pg, "[data-key=\"title\"]", 300),
                               getText(pg, "h1", 300),
                               getText(pg, "[placeholder=\"Issue title\"]", 300)>>)
      status == FirstNonEmpty(<<getText(pg, "[data-key=\"state\"]", 50),
                                getText(pg, ".status-button", 50)>>)
      priority == FirstNonEmpty(<<getText(pg, "[data-key=\"priority\"]", 50),
                                  getText(pg, ".priority-icon", 50)>>)
      description == FirstNonEmpty(<<getText(pg, "[data-key=\"description\"]", 400),
                                     getText(pg, ".ProseMirror", 400)>>)
      assignee == getText(pg, "[data-key=\"assignee\"]", 100)
      content == trim(Cat(<<K(<<6, 6>>), SP, issueId, NL2, K(<<6>>), SP, title, NL2,
                            K(<<7>>), SP, FirstNonEmpty(<<status, K(<<7>>)>>), NL2,
                            K(<<9>>), SP, FirstNonEmpty(<<priority, K(<<4>>)>>), NL2,
                            K(<<9>>), SP, FirstNonEmpty(<<assignee, K(<<10>>)>>), NL2,
                            K(<<12>>), NL, FirstNonEmpty(<<description, K(<<2, 11>>)>>)>>))
  IN  buildResult(pg, "linear_issue", content,
                  [issueId |-> issueId, title |-> title,
                   status |-> FirstNonEmpty(<<status, K(<<7>>)>>),
                   priority |-> FirstNonEmpty(<<priority, K(<<4>>)>>),
                   assignee |-> FirstNonEmpty(<<assignee, K(<<10>>)>>)], ts)

MaxCards == 10

\* card.querySelector(key)?.textContent || ''
Part(el, key) == IF key \in DOMAIN el.parts THEN el.parts[key] ELSE <<>>

\* The line pushed for one issue card, <<>> when nothing is pushed.
CardLine(card) ==
  LET id == cleanText(Part(card, "[data-key=\"identifier\"]"))
      title == cleanText(Part(card, "[data-key=\"title\"]"))
      status == cleanText(Part(card, "[data-key=\"state\"]"))
  IN  IF id # <<>> /\ title # <<>>
      THEN Cat(<<id, Run("k", 1), SP, title,
                 IF status # <<>> THEN Cat(<<SP, Run("k", 1), status, Run("k", 1)>>) ELSE <<>>>>)
      ELSE title

LinearExtractBoardView(pg, ts) ==
  LET issueCards == slice(querySelectorAll(pg, "[data-entity-type=\"issue\"]"), MaxCards)
      lines == [i \in 1..Len(issueCards) |-> CardLine(issueCards[i])]
      pushed == SelectSeq(lines, LAMBDA t : t # <<>>)
      issues == IF Len(pushed) = 0
                THEN slice(getMultiple(pg, "[role=\"button\"] h3", 100), MaxCards)
                ELSE pushed
      content == IF Len(issues) > 0
                 THEN Cat(<<K(<<6, 10, 4, 1>>), SP, NumText(Len(issues)), SP, K(<<7, 7>>),
                            NL2, join(issues, NL)>>)
                 ELSE K(<<6, 10, 4, 7, 8>>)
  IN  buildResult(pg, "linear_board", content, [issueCount |-> Len(issues)], ts)

LinearExtract(pg, ts) ==
  IF includes(pathname(pg.href), <<"/", "issue", "/">>)
  THEN LinearExtractIssue(pg, ts)
  ELSE LinearExtractBoardView(pg, ts)

(***************************************************************************)
(* extract() of each variant: the try block and its failure boundary       *)
(***************************************************************************)
\* No step of the try block throws.
NoFault == <<>>

\* The try block of the named variant's extract().
ExtractBody(name, pg, ts) ==
  CASE name = "GitHub" -> GitHubExtract(pg, ts)
    [] name = "Atlassian" -> AtlassianExtract(pg, ts)
    [] name = "Gmail" -> GmailExtract(pg, ts)
    [] name = "Google Calendar" -> CalendarExtract(pg, ts)
    [] name = "Notion" -> NotionExtract(pg, ts)
    [] name = "Linear" -> LinearExtract(pg, ts)
    [] OTHER -> GenericExtract(pg, ts)

\* 'extraction_failed', the default of buildFallbackResult's parameter.
ExtractionFailed == Words("e", <<17>>)

\* Variant of the catch that drops the error's message.
extractDefaultReason(name, pg, fault, ts) ==
  IF fault # NoFault THEN buildFallbackResult(pg, ExtractionFailed, ts)
  ELSE ExtractBody(name, pg, ts)

\* extract(): fault is the message of the error a step of the try block
\* throws (NoFault when none does); the catch converts it.
extract(name, pg, fault, ts) ==
  IF fault # NoFault THEN buildFallbackResult(pg, fault, ts)
  ELSE ExtractBody(name, pg, ts)

(***************************************************************************)
(* Pages the content script runs in                                        *)
(***************************************************************************)
X(n) == Run("x", n)

Https(host, rest) == <<"https", "://">> \o host \o rest

NewPage(href, title, dom) ==
  [href |-> href, title |-> title, hasBody |-> TRUE, dom |-> dom]

\* An unknown site: an article of 300 characters (after cleaning), a
\* navigation bar and a cookie banner.
PageBlog ==
  NewPage(Https(<<"random-blog", ".", "example">>, <<"/", "post">>), X(9),
          << Elem({"nav"}, X(40)),
             Elem({"article"}, Cat(<<NL, X(150), Run(" ", 3), X(149), NL>>)),
             Elem({".cookie-banner", "[class*=\"cookie\"]"}, X(80)) >>)

\* An unknown site whose main element shows markup as text and is longer
\* than the content cap.
PageLongMarkup ==
  NewPage(Https(<<"docs", ".", "example">>, <<"/", "html">>), X(5),
          << Elem({"main"}, Cat(<<X(1200), Run("<", 1), X(3), Run(">", 1),
                                  X(1200), Run("\t", 2), X(10)>>)) >>)

\* No semantic container: 60 characters of body text next to noise.
PagePlain ==
  NewPage(Https(<<"plain", ".", "example">>, <<"/">>), X(7),
          << Elem({"header"}, X(120)),
             Elem({"div"}, Cat(<<X(30), NL, X(29)>>)),
             Elem({"footer"}, X(200)) >>)

\* An empty document without a title.
PageEmpty ==
  NewPage(Https(<<"empty", ".", "example">>, <<"/">>), <<>>, <<>>)

\* A document still loading: document.body is null.
PageLoading ==
  [href |-> Https(<<"slow", ".", "example">>, <<"/">>), title |-> X(4),
   hasBody |-> FALSE, dom |-> <<>>]

PageGitHubPR ==
  NewPage(Https(<<"github", ".", "com">>, <<"/", "o", "/", "r", "/", "pull", "/", "1">>),
          X(20),
          << Elem({"bdi.js-issue-title"}, X(12)),
             Elem({".State"}, X(4)),
             Elem({".comment-body", "main"}, Cat(<<X(200), NL2, X(200)>>)),
             Elem({".file-info"}, X(8)),
             Elem({".file-info"}, X(60)) >>)

PageGmailOpen ==
  NewPage(Https(<<"mail", ".", "google", ".", "com">>, <<"/", "mail">>), X(15),
          << Elem({".hP"}, X(10)),
             Elem({".gD", ".gD[email]", "[email]"}, X(14)),
             Elem({".a3s", "[data-message-id] .a3s"},
                  Cat(<<X(20), Run("<", 1), X(2), Run(">", 1), X(600)>>)) >>)

PageJira ==
  NewPage(Https(<<"team", ".", "atlassian", ".", "net">>, <<"/", "browse", "/", "K-1">>),
          X(11),
          << Elem({"#key-val"}, X(3)),
             Elem({"h1"}, X(25)),
             Elem({"#description-val"}, X(500)) >>)

PageCalendar ==
  NewPage(Https(<<"calendar", ".", "google", ".", "com">>, <<"/", "r">>), X(8),
          << Elem({"[data-eventchip]"}, Cat(<<Run("d", 1), Run(":", 1), Run("d", 2), SP, X(7)>>)),
             Elem({"[data-eventchip]"}, X(6)) >>)

PageNotion ==
  NewPage(Https(<<"www", ".", "notion", ".", "so">>, <<"/", "doc">>), X(6),
          << Elem({"h1"}, X(10)),
             Elem({".notion-page-content", "[data-block-id]"}, X(900)) >>)

PageLinearBoard ==
  NewPage(Https(<<"linear", ".", "app">>, <<"/", "team", "/", "active">>), X(6),
          << [m |-> {"[data-entity-type=\"issue\"]"}, text |-> X(30),
              parts |-> [k \in {"[data-key=\"identifier\"]", "[data-key=\"title\"]"} |->
                            IF k = "[data-key=\"title\"]" THEN X(18) ELSE X(5)]] >>)

\* Browser-native pages.
PageChrome ==
  NewPage(<<"chrome", "://", "extensions", "/">>, X(10), <<Elem({"div"}, X(70))>>)

PageAbout ==
  NewPage(<<"about", ":", "blank">>, <<>>, <<>>)

PageExtension ==
  NewPage(<<"chrome-extension", "://", "abcdef", "/", "sidebar.html">>, X(7),
          <<Elem({"main"}, X(120))>>)

Pages ==
  { PageBlog, PageLongMarkup, PagePlain, PageEmpty, PageLoading, PageGitHubPR,
    PageGmailOpen, PageJira, PageCalendar, PageNotion, PageLinearBoard,
    PageChrome, PageAbout, PageExtension }

(***************************************************************************)
(* Strings handed to canHandle / getExtractor / testUrl                    *)
(***************************************************************************)
ProbeUrls ==
  { Https(<<"example", ".", "com">>, <<"/">>),
    Https(<<"sub", ".", "example", ".", "com">>, <<"/", "a">>),
    Https(<<"not", "example", ".", "com">>, <<>>),
    Https(<<"example", ".", "com", ".", "evil", ".", "com">>, <<"/">>),
    Https(<<"evil", ".", "com">>, <<"/", "github", ".", "com">>),
    Https(<<"GitHub", ".", "COM">>, <<"/", "o">>),
    Https(<<"gist", ".", "github", ".", "com">>, <<>>),
    Https(<<"google", ".", "com">>, <<"/">>),
    Https(<<"jira", ".", "com">>, <<"?", "selectedIssue=", "K-1">>),
    <<"example", ".", "com">>,
    <<"not a url">>,
    <<>> } \cup {p.href : p \in Pages}

\* The EXTRACTORS array as shipped, and with the two template extractors
\* appended in either order.
Registries ==
  { EXTRACTORS,
    EXTRACTORS \o <<"Example", "ExampleSub">>,
    EXTRACTORS \o <<"ExampleSub", "Example">>,
    <<"Example", "ExampleSub">> \o EXTRACTORS,
    <<"ExampleSub", "Example">> \o EXTRACTORS }

AllNames == SiteNames \cup TemplateNames \cup {FALLBACK_EXTRACTOR}

(***************************************************************************)
(* Bounds of the model                                                     *)
(***************************************************************************)
\* Calls of extractCurrentPage made in one document.
MaxCalls == 1
\* Largest step of the clock, in milliseconds.
TickMs == 1000
\* The clock stops here.
MaxTime == 3000
\* Length of the long error message.
LongMessage == 2000
MaxTriggers == 3

CallIds == 1..MaxCalls

(***************************************************************************)
(* Error messages                                                          *)
(***************************************************************************)
\* new Error('Must implement extract() method'), thrown by the extract() of
\* BaseSiteExtractor when a variant does not override it.
MustImplement == Words("m", <<4, 9, 9, 6>>)

\* new Error('Extraction timeout')
ExtractionTimeout == Words("t", <<10, 7>>)

\* A message that quotes markup, and a long message.
QuotesMarkup == Cat(<<X(6), SP, Run("<", 1), X(3), Run(">", 1), SP, X(7)>>)

LongText == X(LongMessage)

ErrorMessages == {MustImplement, QuotesMarkup, LongText}

(***************************************************************************)
(* extractCurrentPage                                                      *)
(***************************************************************************)
TIMEOUT_MS == 2000

NoResult == [type |-> "none"]

IdleCall ==
  [ st |-> "idle", url |-> <<>>, extractor |-> "none", behaviour |-> "none",
    startedAt |-> 0, timer |-> "none", promise |-> "none", race |-> "none",
    fault |-> NoFault, failure |-> NoFault, value |-> NoResult,
    result |-> NoResult, returns |-> 0 ]

\* The object the catch block of extractCurrentPage returns.
ErrorResult(url, pg, message, ts) ==
  [ url |-> url,
    title |-> TitleOrUntitled(pg),
    domain |-> hostname(pg.href),
    content |-> Cat(<<Words("o", <<8, 2, 6>>), SP, message, Run("o", 1)>>),
    type |-> "error",
    extractionMethod |-> "fallback",
    metadata |-> [error |-> message],
    timestamp |-> ts ]

\* The async function returns: its promise resolves with the value.
Return(call, v) ==
  [call EXCEPT !.st = "done", !.result = v, !.returns = @ + 1]

\* Variant of the catch block that rethrows: the call's promise rejects.
CatchRethrows(call, pg, message, ts) == [call EXCEPT !.st = "rejected"]

\* The catch block: the call returns the error result.
Catch(call, pg, message, ts) ==
  Return(call, ErrorResult(call.url, pg, message, ts))

\* The await on Promise.race resumes with the value the extraction promise
\* was fulfilled with: the call logs result.type and returns the value.
Resume(call) == Return(call, call.value)

\* Promise.race settles with the extraction promise, fulfilled with v.
RaceFulfilled(call, v) ==
  [call EXCEPT !.promise = "fulfilled", !.race = "variant", !.value = v]

\* Promise.race settles with a rejection: by the extraction promise
\* ("variant") or by timeoutPromise ("timeout").
RaceRejected(call, by) == [call EXCEPT !.race = by]

VARIABLES
  page,     \* the document the content script runs in
  now,      \* the clock, Date.now(), in milliseconds
  calls,    \* the calls of extractCurrentPage, by call id
  probe,    \* the last call of testUrl / canHandle / a helper and what it returned
  script,   \* the content script: its debounce timer and the messages it sent
  bg        \* the background service worker: the message it handles, the day logs

vars == <<page, now, calls, probe, script, bg>>

NoProbe ==
  [registry |-> <<>>, url |-> <<>>, extractor |-> "none", handles |-> {}]

\* The background service worker before it has received anything.
NoBackground == [handler |-> "none"]

\* The content script before it has set a timer or received a message.
\* behaviour and fault are what extract() does in this document.
IdleScript(behaviour, fault) ==
  [ behaviour |-> behaviour, fault |-> fault,
    logTimer |-> 0, timerIds |-> 0, timers |-> {},
    triggers |-> <<>>, visits |-> <<>>, sent |-> <<>>,
    readPage |-> "none", responses |-> <<>> ]

NoScript == IdleScript("none", NoFault)

Init ==
  /\ page \in Pages
  /\ now = 0
  /\ calls = [c \in CallIds |-> IdleCall]
  /\ probe = NoProbe
  /\ script = NoScript
  /\ bg = NoBackground

\* Variant of extractCurrentPage that keeps one timer for the module: a new
\* call clears the timer of the calls before it.
ExtractCurrentPageClearsTimers(c, behaviour, fault) ==
  /\ calls[c].st = "idle"
  /\ now + TIMEOUT_MS <= MaxTime
  /\ behaviour = "throws" => fault # NoFault
  /\ behaviour = "async" => fault = NoFault
  /\ LET url == page.href
         name == getExtractor(url)
         started == [IdleCall EXCEPT !.url = url, !.extractor = name,
                                     !.behaviour = behaviour, !.startedAt = now,
                                     !.timer = "pending"]
     IN  calls' = [d \in DOMAIN calls |->
           IF d # c
           THEN [calls[d] EXCEPT !.timer = IF @ = "pending" THEN "cleared" ELSE @]
           ELSE CASE behaviour = "returns" ->
                       Resume(RaceFulfilled([started EXCEPT !.fault = fault],
                                            extract(name, page, fault, now)))
                  [] behaviour = "throws" ->
                       Catch([started EXCEPT !.failure = fault], page, fault, now)
                  [] OTHER -> [started EXCEPT !.st = "awaiting", !.promise = "pending",
                                              !.race = "open"]]
  /\ UNCHANGED <<page, now, probe, bg>>

\* extractCurrentPage() up to its first suspension, for whoever calls it (the
\* caller's own state is the caller's to change).  The timer is started
\* before extract() is called.  behaviour is what the selected extract() does:
\* "returns" a value (the catch inside extract() has converted fault, if
\* any), "throws" (an exception with message fault escapes extract()), or
\* "async" (it returns a promise that is still pending).
ExtractCurrentPage(c, behaviour, fault) ==
  /\ calls[c].st = "idle"
  /\ now + TIMEOUT_MS <= MaxTime
  /\ behaviour = "throws" => fault # NoFault
  /\ behaviour = "async" => fault = NoFault
  /\ LET url == page.href
         name == getExtractor(url)
         started == [IdleCall EXCEPT !.url = url, !.extractor = name,
                                     !.behaviour = behaviour, !.startedAt = now,
                                     !.timer = "pending"]
     IN  calls' = [calls EXCEPT ![c] =
           CASE behaviour = "returns" ->
                  Resume(RaceFulfilled([started EXCEPT !.fault = fault],
                                       extract(name, page, fault, now)))
             [] behaviour = "throws" ->
                  Catch([started EXCEPT !.failure = fault], page, fault, now)
             [] OTHER -> [started EXCEPT !.st = "awaiting", !.promise = "pending",
                                         !.race = "open"]]
  /\ UNCHANGED <<page, now, probe, bg>>

\* The promise an asynchronous extract() returned is fulfilled with the
\* variant's result.  If the race is still open the call resumes with it;
\* after the timeout the value has no reader.
PromiseFulfilled(c, fault) ==
  /\ calls[c].promise = "pending"
  /\ LET v == extract(calls[c].extractor, page, fault, now)
     IN  calls' = [calls EXCEPT ![c] =
           IF calls[c].race = "open"
           THEN Resume(RaceFulfilled([calls[c] EXCEPT !.fault = fault], v))
           ELSE [calls[c] EXCEPT !.promise = "fulfilled"]]
  /\ UNCHANGED <<page, now, probe, script, bg>>

\* The promise an asynchronous extract() returned is rejected.
PromiseRejected(c, message) ==
  /\ calls[c].promise = "pending"
  /\ LET settled == [calls[c] EXCEPT !.promise = "rejected", !.failure = message]
     IN  calls' = [calls EXCEPT ![c] =
           IF calls[c].race = "open"
           THEN Catch(RaceRejected(settled, "variant"), page, message, now)
           ELSE settled]
  /\ UNCHANGED <<page, now, probe, script, bg>>

\* Variant of the timer callback that rejects nothing.
TimerFiresSilently(c) ==
  /\ calls[c].timer = "pending"
  /\ now >= calls[c].startedAt + TIMEOUT_MS
  /\ calls' = [calls EXCEPT ![c].timer = "fired"]
  /\ UNCHANGED <<page, now, probe, script, bg>>

\* Variant of the timer callback that ends the call even after it returned.
TimerFiresAlways(c) ==
  /\ calls[c].timer = "pending"
  /\ now >= calls[c].startedAt + TIMEOUT_MS
  /\ calls' = [calls EXCEPT ![c] =
        Catch(RaceRejected([calls[c] EXCEPT !.timer = "fired"], "timeout"),
              page, ExtractionTimeout, now)]
  /\ UNCHANGED <<page, now, probe, script, bg>>

\* The setTimeout callback: rejects timeoutPromise.  The race settles only
\* if it is still open; the timer is never cleared, so it also fires after
\* the call has returned.
TimerFires(c) ==
  /\ calls[c].timer = "pending"
  /\ now >= calls[c].startedAt + TIMEOUT_MS
  /\ LET fired == [calls[c] EXCEPT !.timer = "fired"]
     IN  calls' = [calls EXCEPT ![c] =
           IF calls[c].race = "open"
           THEN Catch(RaceRejected(fired, "timeout"), page, ExtractionTimeout, now)
           ELSE fired]
  /\ UNCHANGED <<page, now, probe, script, bg>>

\* Time passes, up to the next timer that is due.
Deadlines == {calls[c].startedAt + TIMEOUT_MS : c \in {d \in CallIds : calls[d].timer = "pending"}}

Min(a, b) == IF a < b THEN a ELSE b

Tick ==
  /\ now < MaxTime
  /\ \A d \in Deadlines : now < d
  /\ LET step == Min(now + TickMs, MaxTime)
         due == {d \in Deadlines : d <= step}
     IN  now' = IF due = {} THEN step ELSE CHOOSE d \in due : \A e \in due : d <= e
  /\ UNCHANGED <<page, calls, probe, script, bg>>

\* getExtractor over a registry array.
GetExtractorIn(registry, url) == FirstMatch(registry, url)

\* testUrl(url) / listExtractors: which extractor handles the string, and
\* which variants' canHandle accept it.
TestUrl(registry, url) ==
  /\ probe' = [ registry |-> registry, url |-> url,
                extractor |-> GetExtractorIn(registry, url),
                handles |-> {n \in AllNames : canHandle(n, url)} ]
  /\ UNCHANGED <<page, now, calls, script, bg>>

Next ==
  \/ \E c \in CallIds, b \in {"returns", "throws", "async"},
        f \in ErrorMessages \cup {NoFault} :
          ExtractCurrentPage(c, b, f) /\ UNCHANGED script
  \/ \E c \in CallIds, f \in ErrorMessages \cup {NoFault} : PromiseFulfilled(c, f)
  \/ \E c \in CallIds, m \in ErrorMessages : PromiseRejected(c, m)
  \/ \E c \in CallIds : TimerFires(c)
  \/ Tick

Spec == Init /\ [][Next]_vars

\* The registry on its own: strings handed to testUrl, one after another.
InitRegistry ==
  /\ page = PageEmpty
  /\ now = 0
  /\ calls = [c \in CallIds |-> IdleCall]
  /\ probe = NoProbe
  /\ script = NoScript
  /\ bg = NoBackground

NextRegistry == \E r \in Registries, u \in ProbeUrls : TestUrl(r, u)

SpecRegistry == InitRegistry /\ [][NextRegistry]_vars

(***************************************************************************)
(* The helpers of BaseSiteExtractor and extract(), called on their own     *)
(***************************************************************************)
\* Longest text, in runs, and longest run, of the strings handed to cleanText.
MaxRuns == 4
MaxRunLen == 2

Classes == {"<", ">", " ", "\n", "\t", "x"}

RunsOf == {[c |-> c, n |-> n] : c \in Classes, n \in 1..MaxRunLen}

\* Every string of up to MaxRuns runs.
EnumTexts ==
  { s \in UNION {[1..k -> RunsOf] : k \in 0..MaxRuns} :
      \A i \in 1..(Len(s) - 1) : s[i].c # s[i + 1].c }

\* Strings with markup between words, nested and unbalanced brackets, and
\* strings around the content cap.
SampleTexts ==
  { Cat(<<X(1), SP, Run("<", 1), X(1), Run(">", 1), SP, X(1)>>),
    Cat(<<Run("<", 2), X(1), Run(">", 1), X(1), Run(">", 1)>>),
    Cat(<<X(2), SP, Run("<", 1), SP, X(1), Run("\n", 1), Run(">", 1), Run("\t", 1), X(2)>>),
    Cat(<<Run("\t", 1), X(3), NL2, X(2), Run(" ", 3)>>),
    X(1999), X(2000), X(2001),
    Cat(<<X(1999), Run(" ", 4), X(5)>>),
    Cat(<<X(1500), Run("<", 1), X(700), Run(">", 1), X(600)>>),
    Cat(<<X(1990), Run("<", 1), X(50)>>) }

Texts == EnumTexts \cup SampleTexts

\* The arguments handed to buildResult.
ResultTypes == {"github_pr", "custom_type"}

Metadatas == {EmptyMeta, [layer |-> 1], [title |-> X(3), status |-> X(4)]}

\* The arguments handed to getText.
ProbeSelectors ==
  {"article", "main", ".file-info", ".State", ".a3s", "h1", ".missing", "a["}

MaxLengths == {0, 5, 50, 300}

\* Pages of an unknown site for the three layers of GenericExtractor: an
\* article, a main element, a plain block and a navigation bar.
ArticleTexts == {<<>>, X(99), X(100), Cat(<<X(60), Run(" ", 5), X(38)>>)}

MainTexts == {<<>>, X(99), X(150)}

BlockTexts == {<<>>, X(49), X(50)}

Block(m, text) == IF text = <<>> THEN <<>> ELSE <<Elem(m, text)>>

GenericPage(article, main, block, hasBody, title) ==
  [ href |-> Https(<<"site", ".", "example">>, <<"/">>), title |-> title,
    hasBody |-> hasBody,
    dom |-> IF hasBody
            THEN <<Elem({"nav"}, X(80))>> \o Block({"div"}, block)
                 \o Block({"main"}, main) \o Block({"article"}, article)
            ELSE <<>> ]

GenericPages ==
  { GenericPage(a, m, b, TRUE, t) :
      a \in ArticleTexts, m \in MainTexts, b \in BlockTexts, t \in {<<>>, X(9)} }
  \cup { GenericPage(<<>>, <<>>, <<>>, FALSE, t) : t \in {<<>>, X(9)} }

\* Pages of the code-hosting site, by path.
GitHubPaths ==
  { <<"/">>,
    <<"/", "o", "/", "r">>,
    <<"/", "o", "/", "r", "/", "pull", "/", "1">>,
    <<"/", "o", "/", "r", "/", "pulls">>,
    <<"/", "o", "/", "r", "/", "pull">>,
    <<"/", "o", "/", "r", "/", "issues", "/", "2">>,
    <<"/", "o", "/", "r", "/", "issues">>,
    <<"/", "o", "/", "r", "/", "blob", "/", "main", "/", "f">>,
    <<"/", "o", "/", "r", "/", "tree", "/", "main">>,
    <<"/", "o", "/", "r", "/", "blob", "/", "main", "/", "issues", "/", "pull", "/", "x">>,
    <<"/", "o", "/", "r", "/", "issues", "/", "1", "/", "blob", "/">>,
    <<"/", "o", "/", "r", "/", "blob", "/", "pull", "/", "f">>,
    <<"/", "o", "/", "r", "?", "tab=", "/", "pull", "/">> }

GitHubPage(path) ==
  NewPage(Https(<<"github", ".", "com">>, path), X(20), PageGitHubPR.dom)

GitHubPages == {GitHubPage(p) : p \in GitHubPaths}

\* Pages whose fields are found by a later alternative of a selector chain.
PageJiraLaterAlternative ==
  NewPage(Https(<<"team", ".", "atlassian", ".", "net">>, <<"/", "browse", "/", "K-2">>),
          X(11),
          << Elem({"[data-testid=\"issue.views.issue-base.foundation.summary.heading\"]"},
                  Run(" ", 2)),
             Elem({"#summary-val"}, X(25)),
             Elem({"h1"}, X(7)),
             Elem({"#status-val"}, NL),
             Elem({"[data-test-id=\"issue-field-status\"]"}, X(4)) >>)

PageJiraBare ==
  NewPage(Https(<<"team", ".", "atlassian", ".", "net">>, <<"/", "browse", "/", "K-3">>),
          X(11), <<>>)

PageCalendarEmptyChip ==
  NewPage(Https(<<"calendar", ".", "google", ".", "com">>, <<"/", "r", "/", "week">>), X(8),
          << Elem({"[data-eventchip]"}, Run(" ", 2)),
             Elem({"[data-event-id]"},
                  Cat(<<Run("d", 1), Run(":", 1), Run("d", 2), SP, X(7)>>)),
             Elem({"[data-event-id]"}, X(5)) >>)

PageCalendarLaterSelector ==
  NewPage(Https(<<"calendar", ".", "google", ".", "com">>, <<"/", "r", "/", "day">>), X(8),
          << Elem({"[data-draggable-id]"}, X(6)) >>)

PageNotionDatabase ==
  NewPage(Https(<<"www", ".", "notion", ".", "so">>, <<"/", "db">>), X(6),
          << Elem({".notion-table-view"}, X(40)),
             Elem({"[data-block-id] a"}, Run(" ", 1)),
             Elem({".notion-table-view-cell"}, X(12)),
             Elem({".notion-table-view-cell"}, X(9)) >>)

ChainPages ==
  { PageJiraLaterAlternative, PageJiraBare, PageCalendarEmptyChip,
    PageCalendarLaterSelector, PageNotionDatabase }

\* Documents showing lists: each listed element's text starts with one
\* character of class "i" that occurs nowhere else in the document.
ListItem(n) == Cat(<<Run("i", 1), X(n - 1)>>)

Rows(m, k, n) == [i \in 1..k |-> Elem(m, ListItem(n))]

GmailMarkers ==
  {"[data-message-id]", ".a3s", "[role=\"main\"] [role=\"article\"]"}

\* The webmail document with k rows of n characters and, unless marker is
\* "none", one element matched by that selector.
GmailPage(marker, k, n) ==
  NewPage(Https(<<"mail", ".", "google", ".", "com">>, <<"/", "mail">>), X(15),
          (IF marker = "none" THEN <<>> ELSE <<Elem({marker}, X(30))>>)
          \o Rows({"[role=\"main\"] .zA"}, k, n))

GmailPages ==
  { GmailPage(marker, k, n) :
      marker \in GmailMarkers \cup {"none", ".ii"}, k \in {0, 3, 10, 12}, n \in {40, 120} }

\* The calendar grid with k event chips of n characters.
CalendarPage(k, n) ==
  NewPage(Https(<<"calendar", ".", "google", ".", "com">>, <<"/", "r", "/", "week">>), X(8),
          Rows({"[data-eventchip]"}, k, n))

CalendarPages == { CalendarPage(k, n) : k \in {0, 2, 20, 25}, n \in {30, 150} }

\* The database view with k row links of n characters under a document
\* title of t characters.
NotionPage(k, n, t) ==
  NewPage(Https(<<"www", ".", "notion", ".", "so">>, <<"/", "db">>), X(t),
          <<Elem({".notion-board-view"}, <<>>)>> \o Rows({"[data-block-id] a"}, k, n))

NotionPages == { NotionPage(k, n, t) : k \in {0, 3, 15, 18}, n \in {40, 120}, t \in {6, 600} }

\* The board with k issue cards whose titles have n characters.
LinearCard(n) ==
  [ m |-> {"[data-entity-type=\"issue\"]"}, text |-> ListItem(n),
    parts |-> [key \in {"[data-key=\"title\"]"} |-> ListItem(n)] ]

LinearPage(k, n) ==
  NewPage(Https(<<"linear", ".", "app">>, <<"/", "team", "/", "active">>), X(6),
          [i \in 1..k |-> LinearCard(n)])

LinearPages == { LinearPage(k, n) : k \in {0, 4, 10, 13}, n \in {20, 250} }

ListPages == GmailPages \cup CalendarPages \cup NotionPages \cup LinearPages

TestPages ==
  Pages \cup GenericPages \cup GitHubPages \cup ChainPages \cup ListPages

\* One call of a helper: what it was given and what it returned.
Probing(op) == "op" \in DOMAIN probe /\ probe.op = op

\* cleanText(text), and cleanText applied to its own result.
CleanText(text) ==
  /\ probe = NoProbe
  /\ probe' = [ op |-> "cleanText", text |-> text, out |-> cleanText(text),
                again |-> cleanText(cleanText(text)) ]
  /\ UNCHANGED <<page, now, calls, script, bg>>

\* buildResult(type, content, metadata) in the document pg.
BuildResult(pg, type, content, metadata) ==
  /\ probe = NoProbe
  /\ probe' = [ op |-> "buildResult", page |-> pg, type |-> type,
                content |-> content, metadata |-> metadata,
                out |-> buildResult(pg, type, content, metadata, now) ]
  /\ UNCHANGED <<page, now, calls, script, bg>>

\* getText(selector, maxLength) in the document pg.
GetText(pg, selector, maxLength) ==
  /\ probe = NoProbe
  /\ probe' = [ op |-> "getText", page |-> pg, selector |-> selector,
                maxLength |-> maxLength,
                out |-> getText(pg, selector, maxLength) ]
  /\ UNCHANGED <<page, now, calls, script, bg>>

\* getText(selector), maxLength omitted.
GetTextAll(pg, selector) ==
  /\ probe = NoProbe
  /\ probe' = [ op |-> "getTextAll", page |-> pg, selector |-> selector,
                out |-> getTextAll(pg, selector) ]
  /\ UNCHANGED <<page, now, calls, script, bg>>

\* extract() of the variant the registry selects for the document pg.
Extract(pg, fault) ==
  /\ probe = NoProbe
  /\ probe' = [ op |-> "extract", page |-> pg, name |-> getExtractor(pg.href),
                fault |-> fault,
                out |-> extract(getExtractor(pg.href), pg, fault, now) ]
  /\ UNCHANGED <<page, now, calls, script, bg>>

InitHelpers ==
  /\ page = PageEmpty
  /\ now = 0
  /\ calls = [c \in CallIds |-> IdleCall]
  /\ probe = NoProbe
  /\ script = NoScript
  /\ bg = NoBackground

NextHelpers ==
  \/ probe = NoProbe /\ \E text \in Texts : CleanText(text)
  \/ probe = NoProbe /\
       \E pg \in {PageBlog, PageEmpty}, type \in ResultTypes, content \in SampleTexts,
          metadata \in Metadatas : BuildResult(pg, type, content, metadata)
  \/ probe = NoProbe /\
       \E pg \in Pages, selector \in ProbeSelectors, maxLength \in MaxLengths :
          GetText(pg, selector, maxLength)
  \/ probe = NoProbe /\
       \E pg \in Pages, selector \in ProbeSelectors : GetTextAll(pg, selector)
  \/ probe = NoProbe /\
       \E pg \in TestPages, fault \in {NoFault, MustImplement} : Extract(pg, fault)

SpecHelpers == InitHelpers /\ [][NextHelpers]_vars

(***************************************************************************)
(* The content script and the background's request for a tab's content     *)
(***************************************************************************)
LOG_DEBOUNCE_MS == 500

\* Variant of the check that lets about: pages through.
SkipUrlNoAbout(url) ==
  \/ startsWith(url, <<"chrome", "://">>)
  \/ startsWith(url, <<"chrome-extension", "://">>)

\* logPageVisit: "Skip chrome:// and extension URLs".
SkipUrl(url) ==
  \/ startsWith(url, <<"chrome", "://">>)
  \/ startsWith(url, <<"chrome-extension", "://">>)
  \/ startsWith(url, <<"about", ":">>)

\* handleGetAllTabs: the tabs it does not send READ_PAGE to.
SkipTab(url) ==
  \/ startsWith(url, <<"chrome", "://">>)
  \/ startsWith(url, <<"chrome-extension", "://">>)
  \/ startsWith(url, <<"about", ":">>)
  \/ url = <<"chrome", "://", "newtab", "/">>

\* The two callers of extractCurrentPage in one document.
Callers == {"log", "read"}

\* What extract() of the selected variant does in a document: it returns
\* (after catching the fault, if a step throws), or it throws.
Environments ==
  {<<"returns", NoFault>>, <<"returns", QuotesMarkup>>, <<"throws", MustImplement>>}

InitContent ==
  /\ page \in Pages
  /\ now = 0
  /\ calls = [c \in Callers |-> IdleCall]
  /\ probe = NoProbe
  /\ script \in {IdleScript(e[1], e[2]) : e \in Environments}
  /\ bg = NoBackground

\* Variant of clearTimeout that cancels nothing.
clearTimeoutNothing(timers, id) == timers

\* clearTimeout(id): the timeout with that id, if still pending, is cancelled.
clearTimeout(timers, id) == {t \in timers : t.id # id}

\* setTimeout(logPageVisit, delay) at time t, as the id-th timeout created.
setTimeout(timers, id, t, delay) == timers \cup {[id |-> id, due |-> t + delay]}

\* debouncedLogVisit, on load and on a mutation of the body's children:
\* clearTimeout(logTimer); logTimer = setTimeout(logPageVisit, 500).
\* script.triggers records when it was called.
DebouncedLogVisit ==
  /\ calls["log"].st = "idle"
  /\ Len(script.triggers) < MaxTriggers
  /\ now + LOG_DEBOUNCE_MS + TIMEOUT_MS <= MaxTime
  /\ script' = [script EXCEPT
       !.timers = setTimeout(clearTimeout(@, script.logTimer), script.timerIds + 1,
                             now, LOG_DEBOUNCE_MS),
       !.logTimer = script.timerIds + 1,
       !.timerIds = @ + 1,
       !.triggers = Append(@, now)]
  /\ UNCHANGED <<page, now, calls, probe, bg>>

\* logPageVisit, the callback of a timeout that is due.  The extraction
\* settles within the same job, so the LOG_VISIT message is sent before
\* anything else runs.  script.visits records when it ran.
LogPageVisit ==
  \E t \in script.timers :
    /\ now >= t.due
    /\ IF SkipUrl(page.href) \/ ~page.hasBody
       THEN /\ script' = [script EXCEPT !.timers = @ \ {t},
                                        !.visits = Append(@, now)]
            /\ UNCHANGED <<page, now, calls, probe, bg>>
       ELSE /\ ExtractCurrentPage("log", script.behaviour, script.fault)
            /\ script' = [script EXCEPT
                 !.timers = @ \ {t},
                 !.visits = Append(@, now),
                 !.sent = Append(@, [type |-> "LOG_VISIT",
                                     data |-> calls'["log"].result])]

\* handleGetAllTabs, for the tab of this document: skip it, or send READ_PAGE.
GetAllTabs ==
  /\ script.readPage = "none"
  /\ now + TIMEOUT_MS <= MaxTime
  /\ script' = [script EXCEPT
       !.readPage = IF SkipTab(page.href) THEN "skipped" ELSE "sent"]
  /\ UNCHANGED <<page, now, calls, probe, bg>>

\* The onMessage listener receives READ_PAGE and answers with the result.
ReadPage ==
  /\ script.readPage = "sent"
  /\ ExtractCurrentPage("read", script.behaviour, script.fault)
  /\ script' = [script EXCEPT
       !.readPage = "handled",
       !.responses = Append(@, [success |-> TRUE, data |-> calls'["read"].result])]

\* Time passes, up to the next timer that is due.
ContentDeadlines ==
  {calls[c].startedAt + TIMEOUT_MS : c \in {d \in Callers : calls[d].timer = "pending"}}
  \cup {t.due : t \in script.timers}

\* Two triggers of one burst can be this far apart.
BurstGapMs == LOG_DEBOUNCE_MS \div 2

ContentTick ==
  /\ now < MaxTime
  /\ \A d \in ContentDeadlines : now < d
  /\ \E ms \in {BurstGapMs, TickMs} :
       LET step == Min(now + ms, MaxTime)
           due == {d \in ContentDeadlines : d <= step}
       IN  now' = IF due = {} THEN step ELSE CHOOSE d \in due : \A e \in due : d <= e
  /\ UNCHANGED <<page, calls, probe, script, bg>>

NextContent ==
  \/ DebouncedLogVisit
  \/ LogPageVisit
  \/ GetAllTabs
  \/ ReadPage
  \/ \E c \in Callers : TimerFires(c)
  \/ ContentTick

SpecContent == InitContent /\ [][NextContent]_vars

(***************************************************************************)
(* The background's context for a question: buildContextForQuestion        *)
(***************************************************************************)
\* A question is its words and the characters between them, in order; no
\* two words are adjacent.
toLowerCase(question) == [i \in 1..Len(question) |-> ToLower(question[i])]

\* The alternatives of the three regular expressions, each between \b's.
CurrentPageKeywords ==
  {<<"this">>, <<"current">>, <<"here">>, <<"this", " ", "page">>}

AllTabsKeywords ==
  {<<"all">>, <<"everything">>, <<"tabs">>, <<"open">>, <<"all", " ", "tabs">>}

StandupKeywords ==
  {<<"standup">>, <<"yesterday">>, <<"worked", " ", "on">>, <<"today">>, <<"daily">>}

\* lowerQuestion.match(/\b(...)\b/)
match(lowerQuestion, keywords) == \E k \in keywords : includes(lowerQuestion, k)

\* Variant of Step 1 that tests the standup keywords before the all-tabs ones.
questionTypeStandupFirst(question) ==
  LET lowerQuestion == toLowerCase(question)
  IN  IF match(lowerQuestion, CurrentPageKeywords) THEN "current_page"
      ELSE IF match(lowerQuestion, StandupKeywords) THEN "standup"
      ELSE IF match(lowerQuestion, AllTabsKeywords) THEN "all_tabs"
      ELSE "general"

\* Step 1: detect question type.
questionType(question) ==
  LET lowerQuestion == toLowerCase(question)
  IN  IF match(lowerQuestion, CurrentPageKeywords) THEN "current_page"
      ELSE IF match(lowerQuestion, AllTabsKeywords) THEN "all_tabs"
      ELSE IF match(lowerQuestion, StandupKeywords) THEN "standup"
      ELSE "general"

\* Step 2: select tabs by type.
selectedTabs(type, tabs) ==
  CASE type = "current_page" -> slice(SelectSeq(tabs, LAMBDA t : t.active), 1)
    [] type = "standup" -> <<>>
    [] type = "all_tabs" -> slice(tabs, 8)
    [] OTHER ->
         LET actives == SelectSeq(tabs, LAMBDA t : t.active)
             otherTabs == slice(SelectSeq(tabs, LAMBDA t : ~t.active), 2)
         IN  IF actives # <<>> THEN <<actives[1]>> \o otherTabs ELSE otherTabs

\* Step 3: compress content.
compress(tab) ==
  IF tab.extractionMethod = "generic" /\ StrLen(tab.content) > 500
  THEN [ id |-> tab.id, active |-> tab.active, extractionMethod |-> tab.extractionMethod,
         content |-> Cat(<<substring(tab.content, 500), Run(".", 3)>>),
         compressed |-> TRUE ]
  ELSE [ id |-> tab.id, active |-> tab.active, extractionMethod |-> tab.extractionMethod,
         content |-> tab.content, compressed |-> FALSE ]

TOKEN_BUDGET == 4000

\* Math.ceil(tab.content.length / 4)
tabTokens(tab) == (StrLen(tab.content) + 3) \div 4

\* Variant of Step 4 that passes over a tab exceeding the budget and goes on.
RECURSIVE applyBudgetContinue(_, _, _)
applyBudgetContinue(tabs, i, ctx) ==
  IF i > Len(tabs) THEN ctx
  ELSE IF ctx.estimatedTokens + tabTokens(tabs[i]) > TOKEN_BUDGET
       THEN applyBudgetContinue(tabs, i + 1, ctx)
       ELSE applyBudgetContinue(tabs, i + 1,
              [ finalTabs |-> Append(ctx.finalTabs, tabs[i]),
                estimatedTokens |-> ctx.estimatedTokens + tabTokens(tabs[i]) ])

\* Step 4: apply token budget, from tab i on.
RECURSIVE applyBudget(_, _, _)
applyBudget(tabs, i, ctx) ==
  IF i > Len(tabs) THEN ctx
  ELSE IF ctx.estimatedTokens + tabTokens(tabs[i]) > TOKEN_BUDGET
       THEN ctx
       ELSE applyBudget(tabs, i + 1,
              [ finalTabs |-> Append(ctx.finalTabs, tabs[i]),
                estimatedTokens |-> ctx.estimatedTokens + tabTokens(tabs[i]) ])

\* The tabs selected and compressed for a question (after Step 3).
contextTabs(question, tabs) ==
  LET selected == selectedTabs(questionType(question), tabs)
  IN  [i \in 1..Len(selected) |-> compress(selected[i])]

buildContextForQuestion(question, tabs) ==
  LET ctx == applyBudget(contextTabs(question, tabs), 1,
                         [finalTabs |-> <<>>, estimatedTokens |-> 0])
  IN  [ tabs |-> ctx.finalTabs,
        tabCount |-> Len(ctx.finalTabs),
        totalTabCount |-> Len(tabs),
        questionType |-> questionType(question),
        estimatedTokens |-> ctx.estimatedTokens ]

\* Questions: up to two words of the vocabulary with one separator, and the
\* opening sentence of the side panel's 'Write standup' quick action.
Vocabulary ==
  {"this", "This", "here", "thistle", "all", "ALL", "tabs", "tabset", "open",
   "standup", "Standup", "today", "worked", "on", "what", "page"}

Separators == {" ", "  ", "-"}

WriteStandup ==
  <<"Write", " ", "my", " ", "daily", " ", "standup", " ", "based", " ", "on", " ",
    "everything", " ", "I", " ", "worked", " ", "on", " ", "today", " ", "across", " ",
    "all", " ", "my", " ", "open", " ", "tabs", ".">>

Questions ==
  {<<>>, WriteStandup, <<"what", " ", "worked", " ", "on", " ", "this", "?">>}
  \cup {<<w>> : w \in Vocabulary}
  \cup {<<v, sep, w>> : v \in Vocabulary, sep \in Separators, w \in Vocabulary}

FewQuestions ==
  {<<"this">>, <<"all", " ", "tabs">>, <<"standup">>, <<"what">>, WriteStandup}

\* Lists of n tab entries: the entry at activeAt is active (all of them when
\* activeAt is -1), the entry at bigAt holds big characters of content and
\* the others len.
TabList(n, activeAt, method, len, bigAt, big) ==
  [i \in 1..n |->
     [ id |-> i, active |-> (i = activeAt \/ activeAt = -1),
       extractionMethod |-> method,
       content |-> X(IF i = bigAt THEN big ELSE len) ]]

TabLists ==
  { TabList(n, activeAt, method, len, bigAt, big) :
      n \in {0, 1, 3, 8, 10}, activeAt \in {-1, 0, 1, 3},
      method \in {"generic", "site_specific"},
      len \in {0, 1, 500, 2000, 2027}, bigAt \in {0, 2}, big \in {501, 16000, 16001} }

FewTabLists ==
  { TabList(n, activeAt, "site_specific", 100, 0, 0) :
      n \in {0, 2, 10}, activeAt \in {-1, 0, 2} }

\* One call of buildContextForQuestion; selected is the value of
\* selectedTabs after Step 3.
BuildContext(question, tabs) ==
  /\ probe = NoProbe
  /\ probe' = [ op |-> "buildContextForQuestion", question |-> question, tabs |-> tabs,
                selected |-> contextTabs(question, tabs),
                out |-> buildContextForQuestion(question, tabs) ]
  /\ UNCHANGED <<page, now, calls, script, bg>>

InitContext == InitHelpers

NextContext ==
  \/ probe = NoProbe /\ \E question \in Questions, tabs \in FewTabLists :
                           BuildContext(question, tabs)
  \/ probe = NoProbe /\ \E question \in FewQuestions, tabs \in TabLists :
                           BuildContext(question, tabs)

SpecContext == InitContext /\ [][NextContext]_vars

(***************************************************************************)
(* The background service worker: the message listener and its handlers    *)
(***************************************************************************)
MaxTabs == 2

TAB_TIMEOUT_MS == 2000

\* The message types of the listener's switch, and two others.
StorageTypes ==
  {"GET_SETTINGS", "SAVE_SETTINGS", "GET_DAY_LOG", "GET_YESTERDAY_LOG", "LOG_VISIT",
   "GET_PATTERNS"}

KnownTypes == StorageTypes \cup {"GET_ALL_TABS", "ASK_AI"}

OtherTypes == {"TABS_CHANGED", "READ_PAGE"}

\* message.data is missing.
NoData == [missing |-> TRUE]

\* '(unavailable)'
Unavailable == Cat(<<Run("(", 1), Run("k", 11), Run(")", 1)>>)

\* How the content script of a tab answers READ_PAGE: with success true,
\* with success false, with no value, by a rejected sendMessage (no content
\* script in the tab), or never.
Replies == {"success", "failure", "undefined", "rejects", "silent"}

TabUrls ==
  { Https(<<"site", ".", "example">>, <<"/">>), PageChrome.href, PageExtension.href,
    PageAbout.href, <<"chrome", "://", "newtab", "/">> }

TabKinds ==
  {[url |-> Https(<<"site", ".", "example">>, <<"/">>), reply |-> r] : r \in Replies}
  \cup {[url |-> u, reply |-> "silent"] :
          u \in TabUrls \ {Https(<<"site", ".", "example">>, <<"/">>)}}

\* The browser's tabs: kinds[i] is the i-th tab; the tab at activeAt is the
\* active tab of the current window; with windows = 2 the last tab is the
\* active tab of another window.
BrowserTabs(kinds, activeAt, windows) ==
  [i \in 1..Len(kinds) |->
     [ id |-> i, url |-> kinds[i].url, title |-> X(4 + i), reply |-> kinds[i].reply,
       currentWindow |-> ~(windows = 2 /\ i = Len(kinds)),
       active |-> (i = activeAt \/ (windows = 2 /\ i = Len(kinds))) ]]

KindLists(n) == UNION {[1..k -> TabKinds] : k \in 0..n}

Browsers ==
  { BrowserTabs(kinds, activeAt, windows) :
      kinds \in KindLists(MaxTabs), activeAt \in 0..MaxTabs, windows \in {1, 2} }

AskTab(reply) == [url |-> Https(<<"site", ".", "example">>, <<"/">>), reply |-> reply]

AskBrowsers ==
  { BrowserTabs(<<>>, 0, 1),
    BrowserTabs(<<AskTab("success"), AskTab("silent")>>, 1, 1),
    BrowserTabs(<<[url |-> PageChrome.href, reply |-> "silent"], AskTab("success")>>, 2, 1) }

\* What a content script answers with success true: the extraction result.
ReadPageData(tab) ==
  [ url |-> tab.url, title |-> tab.title, content |-> X(2000), type |-> "article",
    extractionMethod |-> "site_specific" ]

\* chrome.storage.local's 'settings', when stored.
NoSettings == [stored |-> FALSE]

DefaultSettings == [selectedProvider |-> "claude", apiKeys |-> [p \in {} |-> ""]]

StoredSettings ==
  { NoSettings,
    [selectedProvider |-> "claude", apiKeys |-> [p \in {"claude"} |-> "sk-1"]],
    [selectedProvider |-> "openai", apiKeys |-> [p \in {"claude"} |-> "sk-1"]],
    [selectedProvider |-> "openai", apiKeys |-> [p \in {"openai"} |-> ""]],
    [selectedProvider |-> "gemini"],
    [selectedProvider |-> "ollama", apiKeys |-> [p \in {} |-> ""]],
    [selectedProvider |-> "ollama", apiKeys |-> [p \in {"claude"} |-> "sk-1"]] }

\* storage.getSettings: result.settings || { ...defaults }
getSettings(stored) == IF stored = NoSettings THEN DefaultSettings ELSE stored

\* settings.apiKeys?.[provider] || ''
apiKeyOf(settings) ==
  IF "apiKeys" \in DOMAIN settings /\ settings.selectedProvider \in DOMAIN settings.apiKeys
  THEN settings.apiKeys[settings.selectedProvider] ELSE ""

\* Variant of the check that wants a key for every provider.
apiKeyMissingAnyProvider(provider, apiKey) == apiKey = ""

\* !apiKey && provider !== 'ollama'
apiKeyMissing(provider, apiKey) == apiKey = "" /\ provider # "ollama"

\* The worker as the listener is about to receive message, in an
\* environment where the storage call, the tab query and the LLM call of the
\* handler resolve or reject as given.
Listening(message, storage, stored, query, tabs, llm) ==
  [ handler |-> "listening", message |-> message,
    env |-> [storage |-> storage, stored |-> stored, query |-> query, tabs |-> tabs,
             llm |-> llm],
    returned |-> "none", responses |-> <<>>, unhandled |-> 0,
    callback |-> "none", queries |-> 0, tabs |-> <<>>, activeTabId |-> 0, i |-> 0,
    tabsData |-> <<>>, skippedCount |-> 0, timers |-> {}, requests |-> {},
    settings |-> NoSettings, tabsResponse |-> NoData, context |-> NoData,
    llmCalls |-> <<>> ]

\* sendResponse(response) of the listener.
sendResponse(b, response) ==
  [b EXCEPT !.responses = Append(@, response), !.handler = "done"]

\* Variant of a handler's catch block that rethrows.
catchRethrows(b, message) == [b EXCEPT !.unhandled = @ + 1, !.handler = "done"]

\* catch (error) { sendResponse({ success: false, error: error.message }) }
catch(b, message) == sendResponse(b, [success |-> FALSE, error |-> message])

\* await callLLM({...}) in handleAskAI, with the context built before it.
callLLM(b, context) ==
  [b EXCEPT !.context = context, !.handler = "llm",
            !.llmCalls = Append(@, [provider |-> b.settings.selectedProvider,
                                    apiKey |-> apiKeyOf(b.settings),
                                    prompt |-> b.message.data.prompt])]

\* The tab entries as buildContextForQuestion reads them.
ContextTabs(tabs) ==
  [i \in 1..Len(tabs) |->
     [ id |-> i, active |-> tabs[i].active,
       extractionMethod |-> tabs[i].extractionMethod, content |-> tabs[i].content ]]

\* handleAskAI after `await new Promise(resolve => handleGetAllTabs(resolve))`.
askWithTabs(b, tabsResponse) ==
  callLLM([b EXCEPT !.tabsResponse = tabsResponse],
          IF tabsResponse.success
          THEN buildContextForQuestion(b.message.data.prompt,
                                       ContextTabs(tabsResponse.tabs))
          ELSE NoData)

\* The callback of handleGetAllTabs: the listener's sendResponse, or the
\* resolve of handleAskAI's promise.
callback(b, response) ==
  IF b.callback = "sendResponse" THEN sendResponse(b, response)
  ELSE askWithTabs(b, response)

\* The entry pushed for a tab that could not be read.
unavailableEntry(tab, activeTabId) ==
  [ url |-> tab.url, title |-> tab.title, content |-> Unavailable, type |-> "error",
    extractionMethod |-> "fallback", active |-> (tab.id = activeTabId) ]

\* { ...response.data, active: tab.id === activeTabId }
readEntry(data, tab, activeTabId) ==
  [ url |-> data.url, title |-> data.title, content |-> data.content,
    type |-> data.type, extractionMethod |-> data.extractionMethod,
    active |-> (tab.id = activeTabId) ]

\* Variant of the loop that does not count the tabs it skips.
RECURSIVE forEachTabUncounted(_, _)
forEachTabUncounted(b, t) ==
  IF b.i > Len(b.tabs)
  THEN callback(b, [ success |-> TRUE, tabs |-> b.tabsData, totalTabs |-> Len(b.tabs),
                     readableTabs |-> Len(b.tabsData), skippedTabs |-> b.skippedCount ])
  ELSE IF SkipTab(b.tabs[b.i].url)
       THEN forEachTabUncounted([b EXCEPT !.i = @ + 1], t)
       ELSE [b EXCEPT !.handler = "tab",
                      !.timers = @ \cup {[tab |-> b.i, due |-> t + TAB_TIMEOUT_MS]},
                      !.requests = @ \cup {b.i}]

\* `for (const tab of tabs)` from tab b.i on, at time t, up to the next
\* await: skipped tabs are counted; the first other tab is sent READ_PAGE
\* and a timeout is set; after the last tab the callback is called.
RECURSIVE forEachTab(_, _)
forEachTab(b, t) ==
  IF b.i > Len(b.tabs)
  THEN callback(b, [ success |-> TRUE, tabs |-> b.tabsData, totalTabs |-> Len(b.tabs),
                     readableTabs |-> Len(b.tabsData), skippedTabs |-> b.skippedCount ])
  ELSE IF SkipTab(b.tabs[b.i].url)
       THEN forEachTab([b EXCEPT !.skippedCount = @ + 1, !.i = @ + 1], t)
       ELSE [b EXCEPT !.handler = "tab",
                      !.timers = @ \cup {[tab |-> b.i, due |-> t + TAB_TIMEOUT_MS]},
                      !.requests = @ \cup {b.i}]

\* The race of tab b.i settles and entry is pushed; the loop goes on.
pushEntry(b, entry, t) ==
  forEachTab([b EXCEPT !.tabsData = Append(@, entry), !.i = @ + 1], t)

\* The listener: the switch on message.type, and the handler up to its
\* first await.
OnMessage ==
  /\ bg.handler = "listening"
  /\ LET type == bg.message.type
     IN  bg' =
           IF type \notin KnownTypes
           THEN [sendResponse(bg, [error |-> "Unknown message type"])
                   EXCEPT !.returned = FALSE]
           ELSE IF type = "LOG_VISIT" /\ bg.message.data = NoData
           THEN [catch(bg, "Cannot read properties of undefined")
                   EXCEPT !.returned = TRUE]
           ELSE IF type = "GET_ALL_TABS"
           THEN [bg EXCEPT !.returned = TRUE, !.handler = "query",
                           !.callback = "sendResponse", !.queries = @ + 1]
           ELSE IF type = "ASK_AI"
           THEN [bg EXCEPT !.returned = TRUE, !.handler = "settings"]
           ELSE [bg EXCEPT !.returned = TRUE, !.handler = "storage"]
  /\ UNCHANGED <<page, now, calls, probe, script>>

\* The storage call of handleGetSettings, handleSaveSettings, handleGetDayLog,
\* handleGetYesterdayLog, handleLogVisit or handleGetPatterns settles.
StorageSettles ==
  /\ bg.handler = "storage"
  /\ bg' = IF bg.env.storage = "rejects" THEN catch(bg, "storage failed")
           ELSE IF bg.message.type \in {"SAVE_SETTINGS", "LOG_VISIT"}
                THEN sendResponse(bg, [success |-> TRUE])
                ELSE sendResponse(bg, [success |-> TRUE, data |-> bg.message.type])
  /\ UNCHANGED <<page, now, calls, probe, script>>

\* handleAskAI: storage.getSettings() settles; the key check; then the tabs
\* are read, or the LLM is called at once.
SettingsSettle ==
  /\ bg.handler = "settings"
  /\ LET settings == getSettings(bg.env.stored)
         b == [bg EXCEPT !.settings = settings]
     IN  bg' =
           IF bg.env.storage = "rejects" THEN catch(bg, "storage failed")
           ELSE IF apiKeyMissing(settings.selectedProvider, apiKeyOf(settings))
           THEN catch(b, "API key not configured. Please set it in Settings.")
           ELSE IF bg.message.data = NoData
           THEN catch(b, "Cannot read properties of undefined")
           ELSE IF bg.message.data.includeContext # FALSE
           THEN [b EXCEPT !.handler = "query", !.callback = "resolve", !.queries = @ + 1]
           ELSE callLLM(b, NoData)
  /\ UNCHANGED <<page, now, calls, probe, script>>

\* handleGetAllTabs: the two chrome.tabs.query calls settle.
QuerySettles ==
  /\ bg.handler = "query"
  /\ LET activeTabs == SelectSeq(bg.env.tabs, LAMBDA t : t.active /\ t.currentWindow)
     IN  bg' =
           IF bg.env.query = "rejects"
           THEN callback(bg, [success |-> FALSE, error |-> "query failed"])
           ELSE forEachTab([bg EXCEPT
                  !.tabs = bg.env.tabs,
                  !.activeTabId = IF activeTabs = <<>> THEN 0 ELSE activeTabs[1].id,
                  !.i = 1], now)
  /\ UNCHANGED <<page, now, calls, probe, script>>

\* chrome.tabs.sendMessage(tab.id, READ_PAGE) settles for tab i.  When the
\* race for that tab is still open its outcome decides the entry.
TabReplies(i) ==
  /\ i \in bg.requests
  /\ bg.tabs[i].reply # "silent"
  /\ LET tab == bg.tabs[i]
         b == [bg EXCEPT !.requests = @ \ {i}]
     IN  bg' =
           IF bg.handler = "tab" /\ bg.i = i
           THEN IF tab.reply = "success"
                THEN pushEntry(b, readEntry(ReadPageData(tab), tab, b.activeTabId), now)
                ELSE pushEntry(b, unavailableEntry(tab, b.activeTabId), now)
           ELSE b
  /\ UNCHANGED <<page, now, calls, probe, script>>

\* Variant of the timeout callback that rejects nothing.
TabTimerFiresSilently(t) ==
  /\ t \in bg.timers
  /\ now >= t.due
  /\ bg' = [bg EXCEPT !.timers = @ \ {t}]
  /\ UNCHANGED <<page, now, calls, probe, script>>

\* setTimeout(() => reject(new Error('timeout')), 2000) of tab t.tab.
TabTimerFires(t) ==
  /\ t \in bg.timers
  /\ now >= t.due
  /\ LET b == [bg EXCEPT !.timers = @ \ {t}]
     IN  bg' = IF bg.handler = "tab" /\ bg.i = t.tab
               THEN pushEntry(b, unavailableEntry(bg.tabs[t.tab], b.activeTabId), now)
               ELSE b
  /\ UNCHANGED <<page, now, calls, probe, script>>

\* handleAskAI: callLLM settles.
LLMSettles ==
  /\ bg.handler = "llm"
  /\ bg' = IF bg.env.llm = "rejects" THEN catch(bg, "LLM call failed")
           ELSE sendResponse(bg,
                  [ success |-> TRUE,
                    data |-> [ text |-> "answer",
                               context |->
                                 IF bg.context = NoData THEN NoData
                                 ELSE [ tabsUsed |-> bg.context.tabCount,
                                        totalTabs |-> bg.context.totalTabCount,
                                        questionType |-> bg.context.questionType,
                                        estimatedTokens |-> bg.context.estimatedTokens ]]])
  /\ UNCHANGED <<page, now, calls, probe, script>>

\* Time passes while a timeout is pending, up to the next one that is due.
BackgroundTick ==
  /\ bg.timers # {}
  /\ \A t \in bg.timers : now < t.due
  /\ LET next == CHOOSE d \in {t.due : t \in bg.timers} :
                   \A t \in bg.timers : d <= t.due
     IN  now' = Min(now + TickMs, next)
  /\ UNCHANGED <<page, calls, probe, script, bg>>

AskData == {[prompt |-> q, includeContext |-> c] : q \in {<<"this">>, WriteStandup},
                                                    c \in BOOLEAN}

InitBackground ==
  /\ page = PageEmpty
  /\ now = 0
  /\ calls = [c \in CallIds |-> IdleCall]
  /\ probe = NoProbe
  /\ script = NoScript
  /\ bg \in
       { Listening([type |-> type, data |-> data], storage, NoSettings, "resolves",
                   <<>>, "resolves") :
           type \in StorageTypes \cup OtherTypes, data \in {NoData, [url |-> X(3)]},
           storage \in {"resolves", "rejects"} }
       \cup
       { Listening([type |-> "GET_ALL_TABS", data |-> NoData], "resolves", NoSettings,
                   query, tabs, "resolves") :
           query \in {"resolves", "rejects"}, tabs \in Browsers }
       \cup
       { Listening([type |-> "ASK_AI", data |-> data], storage, stored, query, tabs, llm) :
           data \in AskData \cup {NoData}, storage \in {"resolves", "rejects"},
           stored \in StoredSettings, query \in {"resolves", "rejects"},
           tabs \in AskBrowsers, llm \in {"resolves", "rejects"} }

NextBackground ==
  \/ OnMessage
  \/ StorageSettles
  \/ SettingsSettle
  \/ QuerySettles
  \/ \E i \in 1..MaxTabs : TabReplies(i)
  \/ \E t \in bg.timers : TabTimerFires(t)
  \/ LLMSettles
  \/ BackgroundTick

SpecBackground == InitBackground /\ [][NextBackground]_vars

(***************************************************************************)
(* The day-log store: logVisit and cleanOldLogs                            *)
(***************************************************************************)
MaxEntries == 3

\* Instants are hours since 1970-01-01T00:00Z.
\* The civil date of a day number (days since 1970-01-01), as Date computes
\* it for the UTC fields of toISOString().
CivilFromDays(days) ==
  LET z == days + 719468
      era == z \div 146097
      doe == z - era * 146097
      yoe == (doe - doe \div 1460 + doe \div 36524 - doe \div 146096) \div 365
      doy == doe - (365 * yoe + yoe \div 4 - yoe \div 100)
      mp == (5 * doy + 2) \div 153
      d == doy - (153 * mp + 2) \div 5 + 1
      m == IF mp < 10 THEN mp + 3 ELSE mp - 9
      y == yoe + era * 400 + (IF m <= 2 THEN 1 ELSE 0)
  IN  [y |-> y, m |-> m, d |-> d]

\* The code unit of a decimal digit, and of '-'.
Digit(n) == 48 + n

Hyphen == 45

\* new Date(t).toISOString().split('T')[0]: 'YYYY-MM-DD', as code units.
toISODate(t) ==
  LET c == CivilFromDays(t \div 24)
  IN  << Digit(c.y \div 1000), Digit((c.y \div 100) % 10), Digit((c.y \div 10) % 10),
         Digit(c.y % 10), Hyphen, Digit(c.m \div 10), Digit(c.m % 10), Hyphen,
         Digit(c.d \div 10), Digit(c.d % 10) >>

\* The order of IndexedDB string keys: by code units, the first difference
\* deciding.
KeyLess(a, b) ==
  \E i \in 1..Min(Len(a), Len(b)) + 1 :
     /\ \A j \in 1..(i - 1) : a[j] = b[j]
     /\ IF i <= Len(a) /\ i <= Len(b) THEN a[i] < b[i] ELSE i > Len(a) /\ i <= Len(b)

\* IDBKeyRange.upperBound(bound, open): the keys below bound, and bound
\* itself unless open.
upperBound(key, bound, open) == KeyLess(key, bound) \/ (~open /\ key = bound)

\* cutoffDate.setDate(cutoffDate.getDate() - daysToKeep): the same local
\* wall-clock time daysToKeep calendar days earlier.  The local offset at
\* that time is the offset now plus shift hours, so the instant is
\* 24 * daysToKeep - shift hours before t.
setDateBack(t, daysToKeep, shift) == t - 24 * daysToKeep + shift

\* The store at clock start: empty.  shift is -1, 0 or 1: the local offset
\* changed by a daylight-saving transition in the days before, or did not.
EmptyStore(start, shift) ==
  [ handler |-> "none", start |-> start, clock |-> start, shift |-> shift,
    store |-> {}, logged |-> {}, nextId |-> 1, cleaned |-> NoData ]

\* storage.logVisit({..., timestamp: Date.now()}): db.add with the UTC date.
LogVisit ==
  /\ bg.nextId <= MaxEntries
  /\ LET entry == [id |-> bg.nextId, timestamp |-> bg.clock, date |-> toISODate(bg.clock)]
     IN  bg' = [bg EXCEPT !.store = @ \cup {entry}, !.logged = @ \cup {entry},
                          !.nextId = @ + 1]
  /\ UNCHANGED <<page, now, calls, probe, script>>

\* storage.cleanOldLogs(daysToKeep), one readwrite transaction: the cursor
\* over the 'date' index deletes every entry in upperBound(cutoff, true).
CleanOldLogs(daysToKeep) ==
  /\ bg.cleaned = NoData
  /\ LET cutoff == toISODate(setDateBack(bg.clock, daysToKeep, bg.shift))
     IN  bg' = [bg EXCEPT
           !.store = {e \in @ : ~upperBound(e.date, cutoff, TRUE)},
           !.cleaned = [at |-> bg.clock, daysToKeep |-> daysToKeep, cutoff |-> cutoff]]
  /\ UNCHANGED <<page, now, calls, probe, script>>

\* Time passes: to one of the later instants considered, in hours after start.
ClockOffsets == {0, 1, 2, 25, 720, 721, 722, 745}

ClockAdvances ==
  /\ \E o \in ClockOffsets :
        /\ bg.start + o > bg.clock
        /\ bg' = [bg EXCEPT !.clock = bg.start + o]
  /\ UNCHANGED <<page, now, calls, probe, script>>

\* 2024-12-01, 2025-01-30, 2025-02-08 and 2025-03-20, each at 23:00Z.
ClockStarts == {481415, 482855, 483071, 484031}

InitStorage ==
  /\ page = PageEmpty
  /\ now = 0
  /\ calls = [c \in CallIds |-> IdleCall]
  /\ probe = NoProbe
  /\ script = NoScript
  /\ bg \in {EmptyStore(start, shift) : start \in ClockStarts, shift \in {-1, 0, 1}}

NextStorage ==
  \/ LogVisit
  \/ \E daysToKeep \in {1, 30} : CleanOldLogs(daysToKeep)
  \/ ClockAdvances

SpecStorage == InitStorage /\ [][NextStorage]_vars

(***************************************************************************)
(* Properties                                                              *)
(***************************************************************************)
Fields ==
  {"url", "title", "domain", "content", "type", "extractionMethod",
   "metadata", "timestamp"}

Done(c) == calls[c].st = "done"

\* C1: the promise extractCurrentPage returns never rejects; it resolves
\* once, with one ExtractedContent, and when extract() throws or its promise
\* rejects first that value is the error result carrying the failure message.
C1_NeverPropagates ==
  \A c \in CallIds :
    /\ calls[c].st \in {"idle", "awaiting", "done"}
    /\ calls[c].returns = (IF Done(c) THEN 1 ELSE 0)
    /\ Done(c) => DOMAIN calls[c].result = Fields
    /\ ( \/ calls[c].behaviour = "throws"
         \/ calls[c].race = "variant" /\ calls[c].promise = "rejected" )
       => /\ Done(c)
          /\ calls[c].result.type = "error"
          /\ calls[c].result.extractionMethod = "fallback"
          /\ calls[c].result.metadata.error = calls[c].failure
          /\ calls[c].failure \in ErrorMessages

C1_Witness ==
  \E c \in CallIds :
    /\ calls[c].race = "variant" /\ calls[c].promise = "rejected"
    /\ Done(c) /\ calls[c].result.type = "error"
    /\ calls[c].result.metadata.error = QuotesMarkup

\* The call has returned the timeout error result, at its deadline.
TimedOut(c) ==
  /\ Done(c)
  /\ calls[c].returns = 1
  /\ calls[c].result.type = "error"
  /\ calls[c].result.extractionMethod = "fallback"
  /\ calls[c].result.metadata.error = ExtractionTimeout
  /\ calls[c].result.timestamp = calls[c].startedAt + 2000

\* C2: a call whose extract() returned a promise that does not settle is
\* never left waiting past 2000 ms after its start: at that instant the
\* timer ends it with the timeout error result, and a later settlement of
\* the variant's promise does not replace that result.
C2_WaitIsBounded ==
  \A c \in CallIds :
    /\ calls[c].st = "awaiting" =>
         /\ now <= calls[c].startedAt + 2000
         /\ calls[c].timer = "pending"
    /\ calls[c].race = "timeout" => TimedOut(c)

C2_Witness ==
  \E c \in CallIds :
    /\ calls[c].race = "timeout"
    /\ calls[c].promise = "fulfilled"
    /\ TimedOut(c)

\* C3: when the variant's result arrives before the timer, the call returns
\* exactly that value, and the timer firing later changes neither the value
\* returned nor the number of results of the call.
C3_ReturnedAsIs ==
  \A c \in CallIds :
    (calls[c].race = "variant" /\ calls[c].promise = "fulfilled")
      => /\ Done(c)
         /\ calls[c].result = calls[c].value
         /\ calls[c].returns = 1

C3_TimerChangesNothing ==
  \A c \in CallIds :
    Done(c) => /\ calls'[c].st = "done"
               /\ calls'[c].result = calls[c].result
               /\ calls'[c].returns = calls[c].returns

\* C3: when the variant's result arrives before the 2000 ms timer, that result
\* is what the call returns, and the timer firing afterwards changes nothing.
C3_VariantFirst == []C3_ReturnedAsIs /\ [][C3_TimerChangesNothing]_vars

C3_Witness ==
  \E c \in CallIds :
    /\ calls[c].race = "variant" /\ calls[c].promise = "fulfilled"
    /\ calls[c].timer = "fired"
    /\ calls[c].result = calls[c].value
    /\ calls[c].result.type = "generic_semantic"

Probed == probe.registry # <<>>

\* Positions of the registry whose variant accepts the probed string.
Hits == {i \in 1..Len(probe.registry) : probe.registry[i] \in probe.handles}

\* C4: getExtractor returns the earliest variant of the registry, in array
\* order, whose canHandle accepts the URL; with two variants accepting the
\* same host the earlier-listed one is returned.
C4_EarliestMatchWins ==
  (Probed /\ Hits # {}) =>
     \E i \in Hits : /\ probe.extractor = probe.registry[i]
                     /\ \A j \in Hits : i <= j

C4_Witness ==
  /\ Probed
  /\ {"Example", "ExampleSub"} \subseteq probe.handles
  /\ probe.registry = EXTRACTORS \o <<"ExampleSub", "Example">>
  /\ probe.extractor = "ExampleSub"

\* C5: the generic variant's canHandle accepts no string; getExtractor
\* always returns an extractor, and it returns the generic one exactly when
\* no variant of the registry accepts the string (unparsable strings
\* included).
C5_GenericOnlyAsFallback ==
  Probed =>
    /\ "Generic" \notin probe.handles
    /\ probe.extractor \in AllNames
    /\ (probe.extractor = "Generic") <=> (Hits = {})

C5_Witness ==
  /\ Probed
  /\ probe.url = <<"not a url">>
  /\ probe.extractor = "Generic"

\* The host of the probed string, when it parses as a URL.
ProbedHost == IF URLParses(probe.url) THEN hostname(probe.url) ELSE <<"(none)">>

\* The host is the domain, or ends with a dot followed by the domain.
IsDomainOrSubdomain(host, d) ==
  LET k == Len(host) - Len(d)
  IN  /\ k >= 0
      /\ \A i \in 1..Len(d) : host[k + i] = d[i]
      /\ k > 0 => host[k] = "."

\* C6: the default canHandle accepts a string exactly when it parses as a
\* URL whose host is one of the variant's domains or a subdomain of one; for
\* the domain example.com it accepts example.com and sub.example.com and
\* rejects notexample.com and example.com.evil.com; unparsable strings are
\* rejected.
C6_DomainMatch ==
  Probed =>
    /\ \A n \in SiteNames \cup TemplateNames :
         n \in probe.handles <=>
           /\ URLParses(probe.url)
           /\ \E d \in domains(n) : IsDomainOrSubdomain(ProbedHost, d)
    /\ ProbedHost \in {<<"example", ".", "com">>, <<"sub", ".", "example", ".", "com">>}
         => "Example" \in probe.handles
    /\ ProbedHost \in {<<"not", "example", ".", "com">>,
                                <<"example", ".", "com", ".", "evil", ".", "com">>}
         => "Example" \notin probe.handles
    /\ ~URLParses(probe.url) => probe.handles = {}

C6_Witness ==
  /\ Probed
  /\ ProbedHost = <<"not", "example", ".", "com">>
  /\ "Example" \notin probe.handles
  /\ probe.extractor = "Generic"

\* C7: every result a call returns has content of at most 2000 characters,
\* whatever the length of the reason or error message.
C7_ContentCapped ==
  \A c \in CallIds : Done(c) => StrLen(calls[c].result.content) <= 2000

\* C8: the content of every result a call returns holds no markup tag.
C8_NoMarkupInContent ==
  \A c \in CallIds : Done(c) => ~HasTag(calls[c].result.content)

GenericTypes == {"generic_semantic", "generic_body", "generic_fallback"}

\* C9: extractionMethod names the layer that produced the content:
\* 'generic' for the generic variant's layers, 'fallback' for failure and
\* timeout results, 'site_specific' for a matched site variant.
C9_MethodNamesTheLayer ==
  \A c \in CallIds :
    Done(c) =>
      calls[c].result.extractionMethod =
        (IF calls[c].result.type \in GenericTypes THEN "generic"
         ELSE IF calls[c].result.type \in {"fallback", "error"} THEN "fallback"
         ELSE "site_specific")

\* C10: every result a call returns has all eight fields; url, domain and
\* title describe the page, title being the placeholder 'Untitled' when the
\* page has no title; extractionMethod is one of the three methods.
C10_FullyPopulated ==
  \A c \in CallIds :
    Done(c) =>
      LET r == calls[c].result
      IN  /\ DOMAIN r = Fields
          /\ r.url = page.href /\ r.url # <<>>
          /\ r.domain = hostname(page.href)
          /\ r.title = (IF page.title = <<>> THEN Run("U", 8) ELSE page.title)
          /\ r.title # <<>>
          /\ r.type # "none"
          /\ r.extractionMethod \in {"site_specific", "generic", "fallback"}
          /\ r.timestamp \in 0..now

C10_Witness ==
  \E c \in CallIds :
    /\ Done(c)
    /\ page.title = <<>>
    /\ calls[c].result.type = "error"
    /\ calls[c].result.title = Run("U", 8)

\* C11: extract() of every variant never raises.  When a step of its body
\* throws, extract() returns a result with type 'fallback', extractionMethod
\* 'fallback' and metadata.reason equal to the failure's message; the
\* Dispatcher receives that value and its own catch is not entered.
C11_ExtractNeverRaises ==
  \A c \in CallIds :
    calls[c].fault # NoFault =>
      /\ calls[c].extractor \in SiteNames \cup {FALLBACK_EXTRACTOR}
      /\ calls[c].race = "variant" /\ calls[c].promise = "fulfilled"
      /\ calls[c].failure = NoFault
      /\ Done(c)
      /\ calls[c].result = calls[c].value
      /\ DOMAIN calls[c].result = Fields
      /\ calls[c].result.type = "fallback"
      /\ calls[c].result.extractionMethod = "fallback"
      /\ DOMAIN calls[c].result.metadata = {"reason"}
      /\ calls[c].result.metadata.reason = calls[c].fault

C11_Witness ==
  \E c \in CallIds :
    /\ calls[c].extractor = "Gmail"
    /\ calls[c].fault = QuotesMarkup
    /\ Done(c)
    /\ calls[c].result.type = "fallback"
    /\ calls[c].result.metadata.reason = QuotesMarkup

\* C12: cleanText is idempotent: cleaning a cleaned string changes nothing,
\* for every string, with angle brackets and whitespace in any arrangement.
C12_CleanTextIdempotent ==
  Probing("cleanText") => probe.again = probe.out

C12_Witness ==
  /\ Probing("cleanText")
  /\ probe.text = Cat(<<X(1), SP, Run("<", 1), X(1), Run(">", 1), SP, X(1)>>)
  /\ probe.out = Cat(<<X(1), SP, X(1)>>)
  /\ probe.again = probe.out

\* C13: the result of cleanText holds no tab and no newline, no two adjacent
\* spaces, and no space at either end; for the empty string it is empty.
C13_WhitespaceCollapsed ==
  Probing("cleanText") =>
    LET out == probe.out
    IN  /\ \A i \in 1..Len(out) :
             /\ out[i].c \notin {"\t", "\n"}
             /\ out[i].n >= 1
             /\ out[i].c = " " => out[i].n = 1
             /\ i < Len(out) => out[i].c # out[i + 1].c
        /\ out # <<>> => out[1].c # " " /\ out[Len(out)].c # " "
        /\ probe.text = <<>> => out = <<>>

C13_Witness ==
  /\ Probing("cleanText")
  /\ probe.text = Cat(<<Run("\t", 1), X(3), NL2, X(2), Run(" ", 3)>>)
  /\ probe.out = Cat(<<X(3), SP, X(2)>>)

\* The i-th character (its class) of a text.
RECURSIVE CharAt(_, _)
CharAt(s, i) ==
  IF i <= Head(s).n THEN Head(s).c ELSE CharAt(Tail(s), i - Head(s).n)

\* a is the text of the first k characters of b, or all of b when b is shorter.
IsFirstChars(a, b, k) ==
  /\ StrLen(a) = (IF StrLen(b) < k THEN StrLen(b) ELSE k)
  /\ \A i \in 1..StrLen(a) : CharAt(a, i) = CharAt(b, i)

\* C14: whatever content the caller passes, the content of the result of
\* buildResult is the first 2000 characters of cleanText(content), and type
\* and metadata are those passed in.
C14_BuildResultCaps ==
  Probing("buildResult") =>
    /\ IsFirstChars(probe.out.content, cleanText(probe.content), 2000)
    /\ StrLen(probe.out.content) <= 2000
    /\ probe.out.type = probe.type
    /\ probe.out.metadata = probe.metadata

C14_Witness ==
  /\ Probing("buildResult")
  /\ probe.content = Cat(<<X(1500), Run("<", 1), X(700), Run(">", 1), X(600)>>)
  /\ probe.out.content = X(2000)
  /\ probe.metadata = [layer |-> 1]
  /\ probe.out.metadata = [layer |-> 1]

\* The cleaned text of the first element matching the i-th semantic selector.
SemanticText(pg, i) ==
  LET els == SelectSeq(pg.dom, LAMBDA el : SemanticSelectors[i] \in el.m)
  IN  IF els = <<>> THEN <<>> ELSE cleanText(els[1].text)

\* The semantic selectors, by position, whose text has 100 characters or more.
LongEnough(pg) ==
  {i \in 1..Len(SemanticSelectors) : StrLen(SemanticText(pg, i)) >= 100}

\* C15: the generic variant answers from layer 1 exactly when a semantic
\* selector has a cleaned text of 100 characters or more, with the text of
\* the first such selector in list order; otherwise from layer 2 exactly
\* when the body without noise has 50 characters or more; otherwise from
\* layer 3, with the page title or the placeholder, also when the body is
\* empty or missing.
C15_GenericLayering ==
  (Probing("extract") /\ probe.name = "Generic" /\ probe.fault = NoFault) =>
    LET pg == probe.page
        out == probe.out
        first == CHOOSE i \in LongEnough(pg) : \A j \in LongEnough(pg) : i <= j
        body == tryBodyMinusNoise(pg)
    IN  IF LongEnough(pg) # {}
        THEN /\ out.type = "generic_semantic"
             /\ out.metadata = [layer |-> 1]
             /\ IsFirstChars(out.content, SemanticText(pg, first), 2000)
        ELSE IF StrLen(body) >= 50
        THEN /\ out.type = "generic_body"
             /\ out.metadata = [layer |-> 2]
             /\ IsFirstChars(out.content, body, 2000)
        ELSE /\ out.type = "generic_fallback"
             /\ out.metadata = [layer |-> 3]
             /\ out.content = (IF pg.title # <<>> THEN cleanText(pg.title)
                               ELSE Words("U", <<8, 4>>))

\* Layer 1 from the second selector of the list although the first one
\* matches an element (of 99 characters).
C15_Witness ==
  /\ Probing("extract") /\ probe.name = "Generic" /\ probe.fault = NoFault
  /\ probe.page = GenericPage(X(99), X(150), X(50), TRUE, X(9))
  /\ probe.out.type = "generic_semantic"
  /\ probe.out.content = X(150)

\* Layer 3 for a document without a body.
C15_WitnessNoBody ==
  /\ Probing("extract") /\ probe.name = "Generic"
  /\ ~probe.page.hasBody
  /\ probe.out.type = "generic_fallback"

\* The document's address begins with a browser-internal scheme.
InternalPage == page.href[1] \in {"chrome", "chrome-extension", "about"}

\* C16: in a document whose address begins with chrome://,
\* chrome-extension:// or about:, neither trigger path extracts anything:
\* the visit-log path sends no LOG_VISIT and starts no extraction, and the
\* READ_PAGE path sends no request, so the Dispatcher is never called.
C16_SkipList ==
  InternalPage =>
    /\ \A c \in Callers : calls[c] = IdleCall
    /\ script.sent = <<>>
    /\ script.responses = <<>>
    /\ script.readPage \in {"none", "skipped"}

C16_Witness ==
  /\ page = PageAbout
  /\ script.visits # <<>>
  /\ script.readPage = "skipped"
  /\ script.sent = <<>>
  /\ calls["log"] = IdleCall /\ calls["read"] = IdleCall

\* Two results agree in every field but the timestamp.
SameButTimestamp(r1, r2) ==
  [r1 EXCEPT !.timestamp = 0] = [r2 EXCEPT !.timestamp = 0]

\* Each call that has returned has returned once, a full result of this
\* document; the message or response sent for it carries that result; both
\* results agree but for the timestamp.
C17_OwnResults ==
  /\ \A c \in Callers :
       Done(c) => /\ calls[c].returns = 1
                  /\ DOMAIN calls[c].result = Fields
                  /\ calls[c].result.url = page.href
                  /\ calls[c].result.timestamp = calls[c].startedAt
  /\ script.sent # <<>> =>
       /\ Done("log") /\ Len(script.sent) = 1
       /\ script.sent[1].data = calls["log"].result
  /\ script.responses # <<>> =>
       /\ Done("read") /\ Len(script.responses) = 1
       /\ script.responses[1].data = calls["read"].result
  /\ (Done("log") /\ Done("read")) =>
       SameButTimestamp(calls["log"].result, calls["read"].result)

\* A step that changes one call leaves the other exactly as it was, and a
\* call that has returned keeps its result.
C17_NoInterference ==
  /\ \A c \in Callers : \A d \in Callers \ {c} :
       calls'[c] # calls[c] => calls'[d] = calls[d]
  /\ \A c \in Callers :
       Done(c) => /\ calls'[c].st = "done"
                  /\ calls'[c].result = calls[c].result
                  /\ calls'[c].returns = calls[c].returns

Matched == SelectSeq(probe.page.dom, LAMBDA el : probe.selector \in el.m)

\* C18: getText returns the empty string when no element matches;
\* otherwise the cleaned text of the first matching element, cut to
\* maxLength characters, or whole when maxLength is omitted; a selector the
\* DOM rejects yields the empty string instead of an exception.
C18_GetText ==
  /\ Probing("getText") =>
       IF probe.selector = "a[" \/ Matched = <<>> THEN probe.out = <<>>
       ELSE IsFirstChars(probe.out, cleanText(Matched[1].text), probe.maxLength)
  /\ Probing("getTextAll") =>
       IF probe.selector = "a[" \/ Matched = <<>> THEN probe.out = <<>>
       ELSE probe.out = cleanText(Matched[1].text)

\* The first of two matching elements, cut to 5 characters.
C18_Witness ==
  /\ Probing("getText")
  /\ probe.page = PageGitHubPR /\ probe.selector = ".file-info"
  /\ probe.maxLength = 5
  /\ Len(Matched) = 2
  /\ probe.out = X(5)

C18_WitnessInvalid ==
  /\ Probing("getText")
  /\ probe.selector = "a["
  /\ probe.out = <<>>

\* The alternatives of a chain, by position, that yield non-empty text.
Yielding(pg, selectors, maxLength) ==
  {i \in 1..Len(selectors) : getText(pg, selectors[i], maxLength) # <<>>}

\* The value of a field read through a chain: that of the first yielding
\* alternative, the empty string when there is none.
ChainValue(pg, selectors, maxLength) ==
  LET ys == Yielding(pg, selectors, maxLength)
  IN  IF ys = {} THEN <<>>
      ELSE getText(pg, selectors[CHOOSE i \in ys : \A j \in ys : i <= j], maxLength)

\* The non-empty cleaned texts of the elements a selector matches.
NonEmptyTexts(pg, selector) ==
  SelectSeq([i \in 1..Len(querySelectorAll(pg, selector)) |->
               cleanText(querySelectorAll(pg, selector)[i].text)],
            LAMBDA t : t # <<>>)

\* The number of items of a list read through a chain: those of the first
\* alternative that yields any non-empty text, at most limit.
ChainCount(pg, selectors, limit) ==
  LET ys == {i \in 1..Len(selectors) : NonEmptyTexts(pg, selectors[i]) # <<>>}
      n == IF ys = {} THEN 0
           ELSE Len(NonEmptyTexts(pg, selectors[CHOOSE i \in ys : \A j \in ys : i <= j]))
  IN  IF n > limit THEN limit ELSE n

\* C19: a field read through an ordered list of alternative selectors has
\* the value of the first alternative that yields non-empty text; an earlier
\* alternative that matches elements with empty text only does not end the
\* chain; with no alternative yielding, the field is empty or its default
\* and extraction does not fail.
C19_FirstNonEmptyAlternative ==
  (Probing("extract") /\ probe.fault = NoFault) =>
    LET pg == probe.page
        out == probe.out
    IN  /\ out.type # "fallback"
        /\ out.type = "jira_issue" =>
             /\ out.metadata.title = ChainValue(pg,
                  << "[data-testid=\"issue.views.issue-base.foundation.summary.heading\"]",
                     "#summary-val", "h1" >>, 300)
             /\ out.metadata.status = ChainValue(pg,
                  << "[data-testid=\"issue.views.field.status.common.ui.status-lozenge\"]",
                     "#status-val", "[data-test-id=\"issue-field-status\"]" >>, 50)
             /\ LET assignee == ChainValue(pg,
                      << "[data-testid=\"issue.views.field.user.assignee\"]",
                         "#assignee-val" >>, 100)
                IN  out.metadata.assignee =
                      (IF assignee = <<>> THEN Words("k", <<10>>) ELSE assignee)
        /\ out.type = "calendar_schedule" =>
             out.metadata.eventCount =
               ChainCount(pg, << "[data-eventchip]", "[data-draggable-id]",
                                 "[role=\"button\"][data-eventid]", "[data-event-id]" >>, 20)
        /\ out.type = "notion_database" =>
             out.metadata.itemCount =
               ChainCount(pg, <<"[data-block-id] a", ".notion-table-view-cell">>, 15)

\* The path of the probed document has the segment seg between two slashes.
HasSegment(seg) ==
  LET path == pathname(probe.page.href)
  IN  \E i \in 1..(Len(path) - 2) :
        path[i] = "/" /\ path[i + 1] = seg /\ path[i + 2] = "/"

\* C20: the code-hosting variant answers every path from exactly one of
\* four views, tested in the order '/pull/', '/issues/', '/blob/', else
\* the repository overview, a path with several of them taking the
\* earliest in that order; when the branch throws the type is 'fallback'.
C20_GitHubRouting ==
  (Probing("extract") /\ probe.name = "GitHub") =>
    probe.out.type =
      (IF probe.fault # NoFault THEN "fallback"
       ELSE IF HasSegment("pull") THEN "github_pr"
       ELSE IF HasSegment("issues") THEN "github_issue"
       ELSE IF HasSegment("blob") THEN "github_code"
       ELSE "github_repo")

\* A path with '/blob/', '/issues/' and '/pull/', in that order, is a
\* pull-request view.
C20_Witness ==
  /\ Probing("extract") /\ probe.name = "GitHub" /\ probe.fault = NoFault
  /\ HasSegment("blob") /\ HasSegment("issues") /\ HasSegment("pull")
  /\ probe.out.type = "github_pr"

\* The number of listed elements a text shows: its characters of class "i".
ItemsListed(text) == StrLen(SelectSeq(text, LAMBDA r : r.c = "i"))

\* The elements of the probed document a selector of the set matches.
MatchedBy(selectors) ==
  SelectSeq(probe.page.dom, LAMBDA el : el.m \cap selectors # {})

ProbedVariant(name) ==
  Probing("extract") /\ probe.name = name /\ probe.fault = NoFault

\* C21: the webmail variant answers 'gmail_email' exactly when the document
\* holds a message-body marker element and 'gmail_inbox' otherwise; in the
\* list state the content lists at most 10 subject lines and
\* metadata.emailCount is the number of lines listed, 0 when there are none.
C21_GmailStates ==
  ProbedVariant("Gmail") =>
    IF MatchedBy(GmailMarkers) # <<>>
    THEN probe.out.type = "gmail_email"
    ELSE /\ probe.out.type = "gmail_inbox"
         /\ ItemsListed(probe.out.content) <= 10
         /\ probe.out.metadata.emailCount = ItemsListed(probe.out.content)
         /\ probe.out.metadata.emailCount
              = Min(10, Len(MatchedBy({"[role=\"main\"] .zA"})))

\* A list of twelve rows and no marker: ten subject lines are listed.
C21_Witness ==
  /\ ProbedVariant("Gmail")
  /\ MatchedBy(GmailMarkers) = <<>>
  /\ Len(MatchedBy({"[role=\"main\"] .zA"})) = 12
  /\ probe.out.type = "gmail_inbox"
  /\ probe.out.metadata.emailCount = 10
  /\ ItemsListed(probe.out.content) = 10

\* C22: list views are bounded whatever the document holds: at most 20
\* events in the calendar schedule, 15 labels in the database view, 10 card
\* summaries in the board view, and the count stored in metadata is the
\* number of items the content lists.
C22_ListViewsBounded ==
  /\ (ProbedVariant("Google Calendar") /\ probe.out.type = "calendar_schedule") =>
        /\ probe.out.metadata.eventCount <= 20
        /\ probe.out.metadata.eventCount = ItemsListed(probe.out.content)
  /\ (ProbedVariant("Notion") /\ probe.out.type = "notion_database") =>
        /\ probe.out.metadata.itemCount <= 15
        /\ probe.out.metadata.itemCount = ItemsListed(probe.out.content)
  /\ (ProbedVariant("Linear") /\ probe.out.type = "linear_board") =>
        /\ probe.out.metadata.issueCount <= 10
        /\ probe.out.metadata.issueCount = ItemsListed(probe.out.content)

\* The bursts of a sequence of trigger times: a trigger opens a burst when
\* it is the first or comes at least (BurstsAtMost) or more than
\* (BurstsAtLeast) the debounce delay after the trigger before it.
BurstsAtMost(ts) ==
  Cardinality({i \in 1..Len(ts) : i = 1 \/ ts[i] - ts[i-1] >= 500})

BurstsAtLeast(ts) ==
  Cardinality({i \in 1..Len(ts) : i = 1 \/ ts[i] - ts[i-1] > 500})

\* C23: at most one debounce timer is pending; it is the one the last
\* trigger started and is due 500 ms after that trigger; logPageVisit never
\* runs less than 500 ms after a trigger; every burst of triggers less than
\* 500 ms apart leads to exactly one logPageVisit, and there are at most as
\* many LOG_VISIT messages as runs of logPageVisit.
C23_Debounce ==
  /\ Cardinality(script.timers) <= 1
  /\ \A t \in script.timers :
        /\ t.id = script.logTimer
        /\ script.triggers # <<>>
        /\ t.due = script.triggers[Len(script.triggers)] + 500
  /\ \A v \in 1..Len(script.visits) :
        /\ \E i \in 1..Len(script.triggers) :
              script.triggers[i] + 500 <= script.visits[v]
        /\ \A i \in 1..Len(script.triggers) :
              ~(script.visits[v] - 500 < script.triggers[i]
                /\ script.triggers[i] < script.visits[v])
  /\ Len(script.visits) + Cardinality(script.timers) <= BurstsAtMost(script.triggers)
  /\ Len(script.visits) + Cardinality(script.timers) >= BurstsAtLeast(script.triggers)
  /\ Len(script.sent) <= Len(script.visits)

\* Two triggers 250 ms apart, then one logPageVisit 500 ms after the second
\* and one LOG_VISIT message.
C23_Witness ==
  /\ Len(script.triggers) = 2
  /\ script.triggers[2] - script.triggers[1] = 250
  /\ script.visits = <<script.triggers[2] + 500>>
  /\ script.timers = {}
  /\ Len(script.sent) = 1

\* The least number of 4-character tokens that hold a text.
TokensOf(text) ==
  IF StrLen(text) % 4 = 0 THEN StrLen(text) \div 4 ELSE StrLen(text) \div 4 + 1

RECURSIVE TokenSum(_)
TokenSum(tabs) ==
  IF tabs = <<>> THEN 0 ELSE TokensOf(Head(tabs).content) + TokenSum(Tail(tabs))

\* C25: estimatedTokens is the sum of ceil(len(content)/4) over the returned
\* tabs and at most 4000; tabCount is the number of returned tabs; the
\* returned tabs are a prefix of the selected tabs, ending before the first
\* tab that would exceed the budget.
C25_TokenBudget ==
  Probing("buildContextForQuestion") =>
    LET out == probe.out
        k == Len(out.tabs)
    IN  /\ out.estimatedTokens = TokenSum(out.tabs)
        /\ out.estimatedTokens <= 4000
        /\ out.tabCount = k
        /\ k <= Len(probe.selected)
        /\ out.tabs = SubSeq(probe.selected, 1, k)
        /\ k < Len(probe.selected) =>
             out.estimatedTokens + TokensOf(probe.selected[k + 1].content) > 4000

\* A small tab after a tab that exceeds the budget is left out with it.
C25_Witness ==
  /\ Probing("buildContextForQuestion")
  /\ Len(probe.selected) = 8
  /\ probe.out.tabCount = 1
  /\ TokensOf(probe.selected[2].content) > 4000
  /\ TokensOf(probe.selected[3].content) < 1000
  /\ probe.out.estimatedTokens > 0

\* The probed question holds, as a whole word and in any letter case, a
\* word of the set, or the two words 'worked on' one space apart.
AsksWith(words) ==
  \E i \in 1..Len(probe.question) : ToLower(probe.question[i]) \in words

AsksWorkedOn ==
  \E i \in 1..(Len(probe.question) - 2) :
     /\ ToLower(probe.question[i]) = "worked"
     /\ probe.question[i + 1] = " "
     /\ ToLower(probe.question[i + 2]) = "on"

AskedType ==
  IF AsksWith({"this", "current", "here"}) THEN "current_page"
  ELSE IF AsksWith({"all", "everything", "tabs", "open"}) THEN "all_tabs"
  ELSE IF AsksWith({"standup", "yesterday", "today", "daily"}) \/ AsksWorkedOn
       THEN "standup"
  ELSE "general"

Ids(tabs) == [i \in 1..Len(tabs) |-> tabs[i].id]

\* C27: the question type is the first keyword class that matches, in the
\* order current_page, all_tabs, standup, else general; the tabs selected
\* before budgeting are at most one, active, tab for current_page, none for
\* standup, the first 8 at most for all_tabs, and at most 3 with the active
\* tab first for general.
C27_Classification ==
  Probing("buildContextForQuestion") =>
    LET sel == probe.selected
        actives == SelectSeq(probe.tabs, LAMBDA t : t.active)
        others == SelectSeq(probe.tabs, LAMBDA t : ~t.active)
    IN  /\ probe.out.questionType = AskedType
        /\ AskedType = "current_page" =>
             /\ Len(sel) <= 1
             /\ \A i \in 1..Len(sel) : sel[i].active /\ sel[i].id = actives[1].id
             /\ actives # <<>> => Len(sel) = 1
        /\ AskedType = "standup" => sel = <<>>
        /\ AskedType = "all_tabs" =>
             /\ Len(sel) = Min(8, Len(probe.tabs))
             /\ Ids(sel) = SubSeq(Ids(probe.tabs), 1, Len(sel))
        /\ AskedType = "general" =>
             /\ Len(sel) <= 3
             /\ actives # <<>> => (sel # <<>> /\ sel[1].id = actives[1].id)
             /\ Len(sel) = Min(1, Len(actives)) + Min(2, Len(others))
             /\ \A i \in (Min(1, Len(actives)) + 1)..Len(sel) : ~sel[i].active

\* The 'Write standup' quick action holds standup and all-tabs keywords and
\* is answered from the first 8 of 10 tabs.
C27_Witness ==
  /\ Probing("buildContextForQuestion")
  /\ probe.question = WriteStandup
  /\ Len(probe.tabs) = 10
  /\ probe.out.questionType = "all_tabs"
  /\ Len(probe.selected) = 8

\* The tabs of the browser that are not the browser's own pages.
BrowserInternal(url) ==
  url # <<>> /\ url[1] \in {"chrome", "chrome-extension", "about"}

ReadTabs == SelectSeq(bg.tabs, LAMBDA t : ~BrowserInternal(t.url))

IsUnavailable(entry, tab) ==
  /\ entry.content = <<[c |-> "(", n |-> 1], [c |-> "k", n |-> 11], [c |-> ")", n |-> 1]>>
  /\ entry.type = "error"
  /\ entry.extractionMethod = "fallback"
  /\ entry.url = tab.url /\ entry.title = tab.title

\* C24: handleGetAllTabs reads the tabs one after another; while it awaits a
\* tab, that tab's timeout is pending and due within 2 seconds, so the wait
\* ends; a tab that never replies, rejects or replies without success gives
\* an '(unavailable)' entry of type 'error' and method 'fallback' and the
\* next tab is read; when the handler is through, the response is sent.
C24_AlwaysResponds ==
  /\ bg.handler = "tab" =>
        /\ Len(bg.tabsData) < Len(ReadTabs)
        /\ ReadTabs[Len(bg.tabsData) + 1].id = bg.i
        /\ \E t \in bg.timers : t.tab = bg.i /\ now <= t.due
        /\ \A t \in bg.timers : t.due <= now + 2000
  /\ \A k \in 1..Len(bg.tabsData) :
        ReadTabs[k].reply # "success" => IsUnavailable(bg.tabsData[k], ReadTabs[k])
  /\ (bg.handler = "done" /\ bg.message.type = "GET_ALL_TABS") =>
        Len(bg.responses) = 1

\* A tab that never replies was given up after 2 seconds and the tab after
\* it was read; the response holds both.
C24_Witness ==
  /\ bg.handler = "done"
  /\ bg.message.type = "GET_ALL_TABS"
  /\ Len(bg.responses) = 1
  /\ bg.responses[1].success
  /\ Len(bg.responses[1].tabs) = 2
  /\ bg.tabs[1].reply = "silent" /\ bg.tabs[2].reply = "success"
  /\ IsUnavailable(bg.responses[1].tabs[1], bg.tabs[1])
  /\ ~IsUnavailable(bg.responses[1].tabs[2], bg.tabs[2])
  /\ now >= 2000

\* The success responses of handleGetAllTabs sent to the message's sender.
TabsResponses ==
  IF bg.message.type = "GET_ALL_TABS"
  THEN SelectSeq(bg.responses, LAMBDA r : r.success) ELSE <<>>

\* C26: every tab of the query is skipped (a chrome://, chrome-extension://
\* or about: URL) or gives exactly one entry, in query order: in a success
\* response totalTabs = readableTabs + skippedTabs, readableTabs is the
\* length of tabs, and only the entry of the current window's active tab is
\* marked active, so at most one is.
C26_TabAccounting ==
  \A j \in 1..Len(TabsResponses) :
    LET r == TabsResponses[j]
        read == SelectSeq(bg.env.tabs, LAMBDA t : ~BrowserInternal(t.url))
    IN  /\ r.totalTabs = Len(bg.env.tabs)
        /\ r.totalTabs = r.readableTabs + r.skippedTabs
        /\ r.readableTabs = Len(r.tabs)
        /\ Len(r.tabs) = Len(read)
        /\ \A k \in 1..Len(read) :
              /\ r.tabs[k].title = read[k].title
              /\ r.tabs[k].url = read[k].url
              /\ r.tabs[k].active = (read[k].active /\ read[k].currentWindow)
        /\ Cardinality({k \in 1..Len(r.tabs) : r.tabs[k].active}) <= 1

\* Two tabs, one skipped and one read, the one read being the active tab
\* while another window has its own active tab.
C26_Witness ==
  /\ Len(TabsResponses) = 1
  /\ TabsResponses[1].totalTabs = 2
  /\ TabsResponses[1].skippedTabs = 1
  /\ TabsResponses[1].readableTabs = 1
  /\ TabsResponses[1].tabs[1].active
  /\ \E i \in 1..Len(bg.env.tabs) : bg.env.tabs[i].active /\ ~bg.env.tabs[i].currentWindow

\* The provider selected in the stored settings (the default when none are
\* stored) and whether a key is stored for it.
SelectedProvider ==
  IF "selectedProvider" \in DOMAIN bg.env.stored THEN bg.env.stored.selectedProvider
  ELSE "claude"

KeyStored ==
  /\ "apiKeys" \in DOMAIN bg.env.stored
  /\ SelectedProvider \in DOMAIN bg.env.stored.apiKeys
  /\ bg.env.stored.apiKeys[SelectedProvider] # ""

\* What the handler of the message needs fails in this environment.
HandlerFails ==
  CASE bg.message.type = "GET_ALL_TABS" -> bg.env.query = "rejects"
    [] bg.message.type = "ASK_AI" ->
         \/ bg.env.storage = "rejects"
         \/ (~KeyStored /\ SelectedProvider # "ollama")
         \/ "prompt" \notin DOMAIN bg.message.data
         \/ bg.env.llm = "rejects"
    [] bg.message.type = "LOG_VISIT" ->
         bg.env.storage = "rejects" \/ "url" \notin DOMAIN bg.message.data
    [] OTHER -> bg.env.storage = "rejects"

\* C28: the listener answers every message exactly once.  For the eight
\* known types it returns true and the handler calls sendResponse once, with
\* success true when what the handler needs succeeds and with success false
\* and an error message when it fails; for another type the response
\* {error: 'Unknown message type'} is sent before the listener returns
\* false; no failure leaves a handler as an unhandled rejection.  (A tab
\* query that fails inside handleAskAI is not a failure of handleAskAI: the
\* question is asked without context.)
C28_AnswersOnce ==
  LET known == bg.message.type \in
                 {"GET_SETTINGS", "SAVE_SETTINGS", "GET_ALL_TABS", "GET_DAY_LOG",
                  "GET_YESTERDAY_LOG", "LOG_VISIT", "ASK_AI", "GET_PATTERNS"}
  IN  /\ Len(bg.responses) <= 1
      /\ bg.unhandled = 0
      /\ bg.handler = "done" => Len(bg.responses) = 1
      /\ bg.handler # "listening" => bg.returned = known
      /\ (bg.handler # "listening" /\ ~known) =>
            bg.responses = <<[error |-> "Unknown message type"]>>
      /\ (known /\ bg.responses # <<>>) =>
            /\ bg.responses[1].success = ~HandlerFails
            /\ ~bg.responses[1].success => bg.responses[1].error # ""

\* ASK_AI: the tabs were read, the LLM call failed, and the one response
\* says so.
C28_Witness ==
  /\ bg.message.type = "ASK_AI"
  /\ bg.handler = "done"
  /\ bg.queries = 1 /\ Len(bg.llmCalls) = 1
  /\ bg.env.llm = "rejects"
  /\ bg.returned = TRUE
  /\ bg.responses = <<[success |-> FALSE, error |-> "LLM call failed"]>>

ApiKeyError ==
  [success |-> FALSE, error |-> "API key not configured. Please set it in Settings."]

\* C29: handleAskAI with a provider other than 'ollama' and no key stored
\* for it reads no tab and calls no LLM, and once the settings are loaded
\* answers success false with the 'API key not configured' error; with
\* 'ollama' and no key it goes on and calls the LLM with an empty key.
C29_NoKeyNoCall ==
  bg.message.type = "ASK_AI" =>
    IF ~KeyStored /\ SelectedProvider # "ollama"
    THEN /\ bg.queries = 0
         /\ bg.llmCalls = <<>>
         /\ bg.handler \in {"listening", "settings", "done"}
         /\ (bg.handler = "done" /\ bg.env.storage = "resolves") =>
               bg.responses = <<ApiKeyError>>
    ELSE /\ \A j \in 1..Len(bg.responses) : bg.responses[j] # ApiKeyError
         /\ (bg.handler = "done" /\ bg.env.storage = "resolves"
             /\ "prompt" \in DOMAIN bg.message.data) =>
               /\ Len(bg.llmCalls) = 1
               /\ bg.llmCalls[1].provider = SelectedProvider
               /\ ~KeyStored => bg.llmCalls[1].apiKey = ""
               /\ bg.message.data.includeContext => bg.queries = 1

\* 'openai' is selected and only a key for 'claude' is stored: the answer is
\* the error, no tab was queried and no LLM called.
C29_Witness ==
  /\ bg.message.type = "ASK_AI"
  /\ SelectedProvider = "openai" /\ ~KeyStored
  /\ "prompt" \in DOMAIN bg.message.data /\ bg.message.data.includeContext
  /\ bg.handler = "done"
  /\ bg.responses = <<ApiKeyError>>
  /\ bg.queries = 0 /\ bg.llmCalls = <<>>

\* The day, counted from 1970-01-01, an instant falls on.
DayOf(t) == t \div 24

\* C30: after cleanOldLogs(daysToKeep) the store holds no entry dated before
\* the cutoff, today minus daysToKeep, and holds, unchanged, every entry
\* logged that is dated on the cutoff or after it.
C30_KeepsLastDays ==
  ("cleaned" \in DOMAIN bg /\ bg.cleaned # NoData) =>
    LET cutoffDay == DayOf(bg.cleaned.at) - bg.cleaned.daysToKeep
    IN  bg.store = {e \in bg.logged : DayOf(e.timestamp) >= cutoffDay}

====
